---- MODULE Spec2Model ----
(***************************************************************************)
(* A model of the asynchronous image-generation pipeline of                *)
(* script-to-storyboards:                                                  *)
(*   - RunningHubConcurrencyManager, the admission controller that each    *)
(*     provider-client module instantiates once (models/*_RH.py);          *)
(*   - generate_image of QwenImageT2IRH and JimengImg2ImgRH, called from   *)
(*     several threads;                                                    *)
(*   - AITaskManager (utils/ai_task_manager.py), the ai_tasks table;       *)
(*   - TaskProcessor (background/task_processor.py), the worker loop.      *)
(***************************************************************************)
EXTENDS Integers, Sequences, FiniteSets, TLC

(***************************************************************************)
(* Bounds of the model.                                                    *)
(***************************************************************************)
NumThreads == 4
\* Of these, the threads that also call with use_concurrency_control=False.
NumCallers == 3
\* Rows the API layer inserts into ai_tasks.
NumTasks == 2
\* Times the clock is advanced while two tasks are in the table, and while
\* one is.
MaxTicks == 1
MaxLongTicks == 2
\* Consecutive queue-full answers the provider gives to one submission.
MaxQueueFull == 3
\* Consecutive failed iterations of run() that are followed.
MaxErrors == 11
\* Iterations of run() that each of two processors makes.
MaxLoops == 2
\* Threads that are in a client's poll loop, and the poll intervals that fit
\* into the timeout of a call.
NumPollers == 2
PollRounds == 5
\* The value up to which running_tasks is followed when the manager's
\* methods are called in any order.
MaxRunning == 8
\* Rows of the table a single submit pass runs over, and the active rows a
\* single poll pass runs over.
NumRows == 6
NumActive == 2

(***************************************************************************)
(* Program constants.                                                      *)
(***************************************************************************)
max_concurrent == 3
max_submission_retries == 3
\* max_poll_retries of QwenImageT2IRH._poll_task_status.
max_poll_retries == 3
\* max_retries of generate_img2video.
video_max_retries == 3
\* create_task(..., max_retries=3); the API layer never passes another value.
default_max_retries == 3
\* TASK_PROCESSOR_CONFIG, in minutes and in rows.
task_timeout == 30
max_pending_batch == 5
max_active_batch == 50
\* max_age_days of the AITaskManager queries, and the minutes of a day.
max_age_days == 30
MinutesPerDay == 1440
\* TASK_PROCESSOR_CONFIG of the run loop, in seconds and in iterations, and
\* the two literals of its except branch: the cap of wait_time and the sleep
\* after a failed reinitialization.
poll_interval == 20
max_consecutive_errors == 10
max_wait_time == 30
recovery_wait == 60

Threads == 1..NumThreads
\* The provider-client modules modelled; each creates its own manager.
Clients == {"qwen", "jimeng"}

TaskIds == 1..NumTasks
Workers == {"processor"}

VARIABLES
    mgr,    \* mgr[c]: the _concurrency_manager of client module c
    th,     \* th[t]: thread t's position in a generate_image call
    tasks,  \* tasks[i]: row i of ai_tasks (status "NONE": not inserted yet)
    entity, \* entity[i]: image_url of the entity row that task i renders for
    now,    \* the database clock NOW(), in minutes
    ticks,  \* how often the clock was advanced
    wk,     \* wk[w]: TaskProcessor w's place in run() and the batch it fetched
    last    \* the worker step taken last: its inputs and what it wrote

varsA == <<mgr, th>>
varsB == <<tasks, entity, now, ticks, wk, last>>
vars == <<mgr, th, tasks, entity, now, ticks, wk, last>>

Max(a, b) == IF a >= b THEN a ELSE b

(***************************************************************************)
(* RunningHubConcurrencyManager.  Every method body runs under self.lock,  *)
(* so each is one atomic step on the manager's two counters.               *)
(***************************************************************************)
NewManager == [submitted |-> 0, running |-> 0]

\* Mutant: the comparison admits one caller too many.
can_submit_off_by_one(s) == s.submitted <= max_concurrent

can_submit(s) == s.submitted < max_concurrent

\* try_submit_task: the new counters, and the value returned.
try_submit_task(s) ==
    IF can_submit(s)
    THEN [ok |-> TRUE,
          st |-> [submitted |-> s.submitted + 1, running |-> s.running + 1]]
    ELSE [ok |-> FALSE, st |-> s]

task_finished(s) ==
    [submitted |-> Max(0, s.submitted - 1), running |-> Max(0, s.running - 1)]

\* task_failed_before_running: submitted_tasks goes down, running_tasks
\* stays.
task_failed_before_running(s) ==
    [submitted |-> Max(0, s.submitted - 1), running |-> s.running]

\* get_status: the snapshot read under the lock.
get_status(s) ==
    [submitted |-> s.submitted, running |-> s.running,
     queued |-> s.submitted - s.running, max_concurrent |-> max_concurrent]

(***************************************************************************)
(* The submission loop of generate_image (QwenImageT2IRH).                 *)
(***************************************************************************)
\* One turn of the submission loop: what attempt number `attempt` (from 0)
\* does with the provider's answer.
submit_attempt(attempt, answer) ==
    CASE answer = "raises" -> "exception"
      [] answer = "accepted" -> "submitted"
      [] answer = "queue_full" /\ attempt < max_submission_retries - 1 -> "retry"
      [] OTHER -> "failed"

\* The whole loop against a provider that answers queue-full to the first
\* qf attempts and `then` to every later one: the outcome and the number of
\* requests sent.
RECURSIVE submission_loop(_, _, _)
submission_loop(attempt, qf, then) ==
    LET r == submit_attempt(attempt, IF attempt < qf THEN "queue_full" ELSE then)
    IN IF r = "retry"
       THEN submission_loop(attempt + 1, qf, then)
       ELSE [outcome |-> r, requests |-> attempt + 1]

(***************************************************************************)
(* generate_image (QwenImageT2IRH, JimengImg2ImgRH).                       *)
(*   pc      where the call is: idle, wait (admission loop), callback,     *)
(*           upload (jimeng), submit, poll, done                           *)
(*   slot    the local slot_acquired                                       *)
(*   attempt the submission loop's attempt (qwen)                          *)
(*   acq/rel successful try_submit_task / task_finished calls made by the  *)
(*           call so far (history)                                         *)
(*   exit    the path the call returned by                                 *)
(***************************************************************************)
IdleThread ==
    [pc |-> "idle", client |-> "none", slot |-> FALSE, attempt |-> 0,
     acq |-> 0, rel |-> 0, exit |-> "none"]

\* Mutant: the slot is given back on the return paths only.
finally_releases_on_return(slot, label) == slot /\ label /= "exception"

\* The finally block: task_finished() runs iff slot_acquired.
finally_releases(slot, label) == slot

\* A return (or a caught exception) by path `label`, with its finally block.
Exit(t, label) ==
    LET r == finally_releases(th[t].slot, label) IN
    /\ th' = [th EXCEPT ![t].pc = "done", ![t].exit = label,
                        ![t].client = "none", ![t].attempt = 0,
                        ![t].rel = IF r THEN @ + 1 ELSE @]
    /\ mgr' = IF r THEN [mgr EXCEPT ![th[t].client] = task_finished(@)] ELSE mgr
    /\ UNCHANGED varsB

\* A caller enters generate_image of one client; slot_acquired = False.
\* With use_concurrency_control the call starts in the admission loop.
Enter(t, use_concurrency_control) ==
    /\ th[t].pc = "idle"
    /\ \E c \in Clients :
         th' = [th EXCEPT ![t] = [IdleThread EXCEPT
                    !.client = c,
                    !.pc = IF use_concurrency_control THEN "wait" ELSE "callback"]]
    /\ UNCHANGED <<mgr, varsB>>

\* generate_image(...), use_concurrency_control left at its default True.
GenCall(t) == Enter(t, TRUE)

\* generate_image(..., use_concurrency_control=False).
GenCallUngated(t) == Enter(t, FALSE)

\* One turn of `while not try_submit_task(): sleep(2)`, then slot_acquired = True.
Admission(t) ==
    /\ th[t].pc = "wait"
    /\ LET r == try_submit_task(mgr[th[t].client]) IN
         /\ mgr' = [mgr EXCEPT ![th[t].client] = r.st]
         /\ th' = IF r.ok
                  THEN [th EXCEPT ![t].pc = "callback", ![t].slot = TRUE,
                                  ![t].acq = @ + 1]
                  ELSE th
    /\ UNCHANGED varsB

\* `if on_start_callback: on_start_callback()`; the callback may raise.
StartCallback(t) ==
    /\ th[t].pc = "callback"
    /\ \E cb \in {"none", "returns", "raises"} :
         IF cb = "raises"
         THEN Exit(t, "callback_exception")
         ELSE /\ th' = [th EXCEPT ![t].pc =
                          IF th[t].client = "jimeng" THEN "upload" ELSE "submit"]
              /\ UNCHANGED <<mgr, varsB>>

\* jimeng: the input images are uploaded first.
JimengUpload(t) ==
    /\ th[t].pc = "upload"
    /\ \E r \in {"ok", "failed", "raises"} :
         CASE r = "ok" -> /\ th' = [th EXCEPT ![t].pc = "submit"]
                          /\ UNCHANGED <<mgr, varsB>>
           [] r = "failed" -> Exit(t, "upload_failed")
           [] OTHER -> Exit(t, "exception")

\* qwen: one attempt of the submission loop, for one provider answer.
QwenSubmit(t) ==
    /\ th[t].pc = "submit"
    /\ th[t].client = "qwen"
    /\ \E a \in {"accepted", "no_task_id", "queue_full", "error", "raises"} :
         LET r == submit_attempt(th[t].attempt, a) IN
         CASE r = "exception" -> Exit(t, "exception")
           [] r = "submitted" -> /\ th' = [th EXCEPT ![t].pc = "poll", ![t].attempt = 0]
                                 /\ UNCHANGED <<mgr, varsB>>
           [] r = "retry" -> /\ th' = [th EXCEPT ![t].attempt = @ + 1]
                             /\ UNCHANGED <<mgr, varsB>>
           [] OTHER -> Exit(t, "submission_failed")

\* jimeng: a single submission, never retried.
JimengSubmit(t) ==
    /\ th[t].pc = "submit"
    /\ th[t].client = "jimeng"
    /\ \E a \in {"accepted", "no_task_id", "queue_full", "error", "raises"} :
         CASE a = "raises" -> Exit(t, "exception")
           [] a = "accepted" -> /\ th' = [th EXCEPT ![t].pc = "poll"]
                                /\ UNCHANGED <<mgr, varsB>>
           [] OTHER -> Exit(t, "submission_failed")

\* _poll_task_status and _get_task_outputs: one poll of the provider.
PollTask(t) ==
    /\ th[t].pc = "poll"
    /\ \E a \in {"pending", "success", "no_output", "fail", "timeout", "raises"} :
         CASE a = "pending" -> UNCHANGED vars
           [] a = "success" -> Exit(t, "success")
           [] a = "no_output" -> Exit(t, "output_missing")
           [] a = "fail" -> Exit(t, "provider_failure")
           [] a = "timeout" -> Exit(t, "poll_timeout")
           [] OTHER -> Exit(t, "exception")

\* The call has returned; the thread may call again.
GenReturn(t) ==
    /\ th[t].pc = "done"
    /\ th' = [th EXCEPT ![t] = IdleThread]
    /\ UNCHANGED <<mgr, varsB>>

(***************************************************************************)
(* The ai_tasks table (AITaskManager).  SQL NULL is NULL for text columns, *)
(* NoTime for timestamps and NoHandle for the provider's task id.          *)
(***************************************************************************)
NULL == "NULL"
NoTime == -1
NoHandle == 0
\* Python's None for an argument that is not passed.
None == "None"

max_age_minutes == max_age_days * MinutesPerDay

NoRow ==
    [status |-> "NONE", task_id |-> NoHandle, result_url |-> NULL,
     r2_key |-> NULL, error_message |-> NULL, retry_count |-> 0,
     max_retries |-> 0, created_at |-> NoTime, submitted_at |-> NoTime]

\* create_task: the INSERT sets max_retries; status, retry_count and
\* created_at take the column defaults (PENDING, 0, NOW()).
create_task(max_retries, t) ==
    [NoRow EXCEPT !.status = "PENDING", !.max_retries = max_retries,
                  !.created_at = t]

\* Mutant: every write of FAILED also consumes a retry.
update_task_counts_failures(row, status, runninghub_task_id, result_url, r2_key, error_message, increment_retry, t) ==
    [row EXCEPT
        !.status = IF status /= None THEN status ELSE @,
        !.submitted_at = IF status = "SUBMITTED" THEN t ELSE @,
        !.task_id = IF runninghub_task_id /= NoHandle
                    THEN runninghub_task_id ELSE @,
        !.result_url = IF result_url /= None THEN result_url ELSE @,
        !.r2_key = IF r2_key /= None THEN r2_key ELSE @,
        !.error_message = IF error_message /= None THEN error_message ELSE @,
        !.retry_count = IF increment_retry \/ status = "FAILED"
                        THEN @ + 1 ELSE @]

\* update_task: the SET list built from the arguments that are given, applied
\* to the row with this id at time t.  A status of None, a falsy
\* runninghub_task_id and a None result_url, r2_key or error_message add
\* nothing to the list.
update_task(row, status, runninghub_task_id, result_url, r2_key, error_message, increment_retry, t) ==
    [row EXCEPT
        !.status = IF status /= None THEN status ELSE @,
        !.submitted_at = IF status = "SUBMITTED" THEN t ELSE @,
        !.task_id = IF runninghub_task_id /= NoHandle
                    THEN runninghub_task_id ELSE @,
        !.result_url = IF result_url /= None THEN result_url ELSE @,
        !.r2_key = IF r2_key /= None THEN r2_key ELSE @,
        !.error_message = IF error_message /= None THEN error_message ELSE @,
        !.retry_count = IF increment_retry THEN @ + 1 ELSE @]

\* reset_task_for_retry: update_task(status=PENDING, runninghub_task_id=None,
\* error_message=None, increment_retry=True).
reset_task_for_retry(row, t) ==
    update_task(row, "PENDING", NoHandle, None, None, None, TRUE, t)

ActiveStatuses == {"SUBMITTED", "QUEUED", "RUNNING"}

\* created_at > NOW() - INTERVAL 'max_age_days days'
WithinMaxAge(row, t) == row.created_at > t - max_age_minutes

\* The WHERE clauses of the four batch queries, at time t.
IsPending(row, t) == row.status = "PENDING" /\ WithinMaxAge(row, t)

\* Mutant: the poll pass also fetches finished tasks.
IsActive_with_success(row, t) ==
    row.status \in ActiveStatuses \cup {"SUCCESS"} /\ WithinMaxAge(row, t)

IsActive(row, t) == row.status \in ActiveStatuses /\ WithinMaxAge(row, t)

\* Mutant: the sweep looks at RUNNING tasks only.
IsTimedOut_running_only(row, timeout_minutes, t) ==
    /\ row.status = "RUNNING"
    /\ row.submitted_at /= NoTime
    /\ row.submitted_at < t - timeout_minutes
    /\ WithinMaxAge(row, t)

IsTimedOut(row, timeout_minutes, t) ==
    /\ row.status \in ActiveStatuses
    /\ row.submitted_at /= NoTime
    /\ row.submitted_at < t - timeout_minutes
    /\ WithinMaxAge(row, t)

\* Mutant: the budget comparison lets one reset too many through.
IsRetryable_off_by_one(row, t) ==
    /\ row.status = "FAILED"
    /\ row.retry_count <= row.max_retries
    /\ WithinMaxAge(row, t)

\* Mutant: the query leaves the retry budget out.
IsRetryable_ignores_budget(row, t) ==
    /\ row.status = "FAILED"
    /\ WithinMaxAge(row, t)

\* Mutant: timed-out tasks are retried like failed ones.
IsRetryable_any_terminal(row, t) ==
    /\ row.status \in {"FAILED", "TIMEOUT"}
    /\ row.retry_count < row.max_retries
    /\ WithinMaxAge(row, t)

IsRetryable(row, t) ==
    /\ row.status = "FAILED"
    /\ row.retry_count < row.max_retries
    /\ WithinMaxAge(row, t)

\* ORDER BY key ASC: rows with equal keys come in any order.
IsOrdered(seq, key) ==
    \A i, j \in 1..Len(seq) : i < j => key[seq[i]] <= key[seq[j]]

\* Mutant: the query returns the rows in any order.
QueryResults_any_order(S, key, limit) ==
    LET n == IF Cardinality(S) < limit THEN Cardinality(S) ELSE limit
        full == {p \in [1..Cardinality(S) -> S] :
                    \A i, j \in 1..Cardinality(S) : i /= j => p[i] /= p[j]}
    IN {SubSeq(p, 1, n) : p \in full}

\* The sequences a query may return for the ids S: S in an order that agrees
\* with ORDER BY key, cut to LIMIT rows.
QueryResults(S, key, limit) ==
    LET n == IF Cardinality(S) < limit THEN Cardinality(S) ELSE limit
        full == {p \in [1..Cardinality(S) -> S] :
                    /\ \A i, j \in 1..Cardinality(S) : i /= j => p[i] /= p[j]
                    /\ IsOrdered(p, key)}
    IN {SubSeq(p, 1, n) : p \in full}

\* The sort keys of the queries, by row id.
ByCreatedAt == [i \in DOMAIN tasks |-> tasks[i].created_at]
BySubmittedAt == [i \in DOMAIN tasks |-> tasks[i].submitted_at]
Unordered == [i \in DOMAIN tasks |-> 0]

\* Each query returns the rows as they are when it runs.
Snapshot(ids) == [k \in 1..Len(ids) |-> [id |-> ids[k], row |-> tasks[ids[k]]]]

get_pending_tasks(limit) ==
    {Snapshot(p) : p \in QueryResults({i \in DOMAIN tasks : IsPending(tasks[i], now)},
                                      ByCreatedAt, limit)}

get_active_tasks(limit) ==
    {Snapshot(p) : p \in QueryResults({i \in DOMAIN tasks : IsActive(tasks[i], now)},
                                      BySubmittedAt, limit)}

\* Mutant: the timeout query finds no row.
get_timeout_tasks_none(timeout_minutes) == {<<>>}

get_timeout_tasks(timeout_minutes) ==
    {Snapshot(p) : p \in QueryResults({i \in DOMAIN tasks : IsTimedOut(tasks[i], timeout_minutes, now)},
                                      Unordered, Cardinality(DOMAIN tasks))}

get_failed_tasks_for_retry ==
    {Snapshot(p) : p \in QueryResults({i \in DOMAIN tasks : IsRetryable(tasks[i], now)},
                                      ByCreatedAt, Cardinality(DOMAIN tasks))}

(***************************************************************************)
(* The provider client of the worker.                                      *)
(***************************************************************************)
\* JimengT2IRH.submit_task: a task handle when the submission loop ends with
\* an accepted request, None otherwise.
submit_task(qf, then) ==
    LET r == submission_loop(0, qf, then)
    IN [accepted |-> r.outcome = "submitted", requests |-> r.requests]

\* The handle the provider gives an accepted submission of this row.
NewHandle(row) == row.retry_count + 1

(***************************************************************************)
(* TaskProcessor.run: four passes per iteration, each over a fetched batch.*)
(***************************************************************************)
\* The record of a worker step: the row it was on and the status fetched for
\* it, the provider's answers, the update_task calls and provider requests
\* it made, how the store answered, whether the entity's image was written
\* and whether an exception left the pass.
NoStep ==
    [kind |-> "none", id |-> 0, prev |-> "NONE", remote |-> "none",
     post |-> "none", qf |-> 0, then |-> "none", writes |-> 0, requests |-> 0,
     store |-> <<>>, entity_written |-> FALSE, escaped |-> FALSE]

\* TaskProcessor.__init__: running, no consecutive errors; `wait` is the
\* sleep the loop is in, loop_count the iteration run() is in.
NewProcessor ==
    [pc |-> "fetch_pending", batch |-> <<>>, at |-> 0,
     running |-> TRUE, consecutive_errors |-> 0, wait |-> 0,
     loop_count |-> 1]

InitStore ==
    /\ tasks = [i \in TaskIds |-> NoRow]
    /\ entity = [i \in TaskIds |-> NULL]
    /\ now = 0
    /\ ticks = 0
    /\ wk = [w \in Workers |-> NewProcessor]
    /\ last = NoStep

\* The API layer inserts the next row of ids, PENDING.
Insert(ids) ==
    /\ \E i \in ids :
         /\ tasks[i].status = "NONE"
         /\ \A j \in ids : j < i => tasks[j].status /= "NONE"
         /\ tasks' = [tasks EXCEPT ![i] = create_task(default_max_retries, now)]
    /\ UNCHANGED <<entity, now, ticks, wk, last, varsA>>

CreateTask == Insert(TaskIds)

\* The table holds a single task.
CreateFirstTask == Insert({1})

\* Time passes: just over the task timeout, or that much short of the
\* maximum age.
TickSteps == {task_timeout + 1, max_age_minutes - (task_timeout + 1)}

Elapse(limit) ==
    /\ ticks < limit
    /\ \E d \in TickSteps : now' = now + d
    /\ ticks' = ticks + 1
    /\ UNCHANGED <<tasks, entity, wk, last, varsA>>

Tick == Elapse(MaxTicks)

TickLong == Elapse(MaxLongTicks)

\* A pass starts with its query, run at NOW(); an empty result ends the pass
\* at once.
Fetch(w, pc, results, work, next) ==
    /\ wk[w].pc = pc
    /\ \E b \in results :
         wk' = [wk EXCEPT ![w].pc = IF b = <<>> THEN next ELSE work,
                          ![w].batch = b, ![w].at = now]
    /\ last' = [NoStep EXCEPT !.kind = pc]
    /\ UNCHANGED <<tasks, entity, now, ticks, varsA>>

\* The batch without its first row; the pass ends with its last row.
Advance(w, next) ==
    wk' = [wk EXCEPT ![w].pc = IF Len(wk[w].batch) = 1 THEN next ELSE @,
                     ![w].batch = Tail(@)]

FetchPending(w) ==
    Fetch(w, "fetch_pending", get_pending_tasks(max_pending_batch),
          "submit", "fetch_active")

\* _process_pending_tasks, one row: _submit_task, and on an exception the
\* FAILED update.
SubmitStep(w) ==
    /\ wk[w].pc = "submit"
    /\ LET task == Head(wk[w].batch)
           i == task.id
       IN \E qf \in 0..MaxQueueFull, then \in {"accepted", "error"} :
            LET result == submit_task(qf, then)
            IN /\ tasks' = [tasks EXCEPT ![i] =
                     IF result.accepted
                     THEN update_task(@, "SUBMITTED", NewHandle(task.row),
                                      None, None, None, FALSE, now)
                     ELSE update_task(@, "FAILED", NoHandle, None, None,
                                      "submit_failed", FALSE, now)]
               /\ last' = [NoStep EXCEPT !.kind = "submit", !.id = i,
                              !.prev = task.row.status, !.qf = qf,
                              !.then = then, !.writes = 1,
                              !.requests = result.requests]
    /\ Advance(w, "fetch_active")
    /\ UNCHANGED <<entity, now, ticks, varsA>>

FetchActive(w) ==
    Fetch(w, "fetch_active", get_active_tasks(max_active_batch),
          "poll", "fetch_timeout")

\* What check_task_status may answer, and how the steps after a provider
\* SUCCESS may end.
RemoteAnswers ==
    {"none", "raises", "QUEUED", "RUNNING", "SUCCESS", "FAIL", "CANCEL", "OTHER"}
PostOutcomes == {"ok", "no_url", "upload_failed", "entity_failed"}

\* images[0]['imageUrl'] of the provider's result, and what upload_from_url
\* returns for it.
ProviderUrl == "provider_url"
CdnUrl == "cdn_url"

\* Mutant: the provider's URL is stored as the result.
handle_task_success_provider_url(row, image_url, cdn_url, post, t) ==
    IF post = "ok"
    THEN update_task(row, "SUCCESS", NoHandle, image_url, "r2_key", None, FALSE, t)
    ELSE update_task(row, "FAILED", NoHandle, None, None, "postprocess_failed",
                     FALSE, t)

\* Mutant: SUCCESS is written before the entity is updated, so a failure of
\* the entity's update comes too late.
handle_task_success_before_entity(row, image_url, cdn_url, post, t) ==
    IF post \in {"ok", "entity_failed"}
    THEN update_task(row, "SUCCESS", NoHandle, cdn_url, "r2_key", None, FALSE, t)
    ELSE update_task(row, "FAILED", NoHandle, None, None, "postprocess_failed",
                     FALSE, t)

\* _handle_task_success: extract the URL, upload, update the entity, write
\* SUCCESS; any exception on the way writes FAILED.
handle_task_success(row, image_url, cdn_url, post, t) ==
    IF post = "ok"
    THEN update_task(row, "SUCCESS", NoHandle, cdn_url, "r2_key", None, FALSE, t)
    ELSE update_task(row, "FAILED", NoHandle, None, None, "postprocess_failed",
                     FALSE, t)

\* Mutant: every QUEUED/RUNNING answer is written.
status_changed_always(current_status, new_status) == TRUE

\* Whether the QUEUED/RUNNING branch writes: only on a change of status.
status_changed(current_status, new_status) == current_status /= new_status

\* Mutant: a failed status query fails the task.
check_task_status_fails_on_error(task, row, remote, post, t) ==
    IF task.task_id /= NoHandle /\ remote \in {"none", "raises"}
    THEN [row |-> update_task(row, "FAILED", NoHandle, None, None,
                              "poll_failed", FALSE, t),
          writes |-> 1]
    ELSE [row |-> row, writes |-> 0]

\* _check_task_status for the fetched row `task`: the row written (the
\* row itself when nothing is written) and the number of update_task calls.
check_task_status(task, row, remote, post, t) ==
    CASE task.task_id = NoHandle -> [row |-> row, writes |-> 0]
      [] remote \in {"QUEUED", "RUNNING"} ->
            IF status_changed(task.status, remote)
            THEN [row |-> update_task(row, remote, NoHandle, None, None, None,
                                      FALSE, t),
                  writes |-> 1]
            ELSE [row |-> row, writes |-> 0]
      [] remote = "SUCCESS" ->
            [row |-> handle_task_success(row, ProviderUrl, CdnUrl, post, t),
             writes |-> 1]
      [] remote \in {"FAIL", "CANCEL"} ->
            [row |-> update_task(row, "FAILED", NoHandle, None, None,
                                 "provider_failed", FALSE, t),
             writes |-> 1]
      [] OTHER -> [row |-> row, writes |-> 0]

\* _poll_active_tasks, one row.
PollStep(w) ==
    /\ wk[w].pc = "poll"
    /\ LET task == Head(wk[w].batch)
           i == task.id
       IN \E remote \in RemoteAnswers :
          \E post \in IF remote = "SUCCESS" THEN PostOutcomes ELSE {"none"} :
            LET r == check_task_status(task.row, tasks[i], remote, post, now)
            IN /\ tasks' = [tasks EXCEPT ![i] = r.row]
               /\ entity' = IF remote = "SUCCESS" /\ post = "ok"
                               /\ task.row.task_id /= NoHandle
                            THEN [entity EXCEPT ![i] = "r2_key"]
                            ELSE entity
               /\ last' = [NoStep EXCEPT !.kind = "poll", !.id = i,
                              !.prev = task.row.status,
                              !.remote = IF task.row.task_id = NoHandle
                                         THEN "none" ELSE remote,
                              !.post = post, !.writes = r.writes,
                              !.requests = IF task.row.task_id = NoHandle
                                           THEN 0 ELSE 1]
    /\ Advance(w, "fetch_timeout")
    /\ UNCHANGED <<now, ticks, varsA>>

FetchTimeout(w) ==
    Fetch(w, "fetch_timeout", get_timeout_tasks(task_timeout),
          "timeout", "fetch_retry")

\* _handle_timeout_tasks, one row.
TimeoutStep(w) ==
    /\ wk[w].pc = "timeout"
    /\ LET task == Head(wk[w].batch)
           i == task.id
       IN /\ tasks' = [tasks EXCEPT ![i] =
                update_task(@, "TIMEOUT", NoHandle, None, None, "timed_out",
                            FALSE, now)]
          /\ last' = [NoStep EXCEPT !.kind = "timeout", !.id = i,
                         !.prev = task.row.status, !.writes = 1]
    /\ Advance(w, "fetch_retry")
    /\ UNCHANGED <<entity, now, ticks, varsA>>

FetchRetry(w) ==
    Fetch(w, "fetch_retry", get_failed_tasks_for_retry, "retry", "sleep")

\* _retry_failed_tasks, one row.
RetryStep(w) ==
    /\ wk[w].pc = "retry"
    /\ LET task == Head(wk[w].batch)
           i == task.id
       IN /\ tasks' = [tasks EXCEPT ![i] = reset_task_for_retry(@, now)]
          /\ last' = [NoStep EXCEPT !.kind = "retry", !.id = i,
                         !.prev = task.row.status, !.writes = 1]
    /\ Advance(w, "sleep")
    /\ UNCHANGED <<entity, now, ticks, varsA>>

\* time.sleep(poll_interval), then the next iteration.
Sleep(w) ==
    /\ wk[w].pc = "sleep"
    /\ wk' = [wk EXCEPT ![w].pc = "fetch_pending"]
    /\ last' = [NoStep EXCEPT !.kind = "sleep"]
    /\ UNCHANGED <<tasks, entity, now, ticks, varsA>>

NextWorker ==
    \/ CreateTask
    \/ Tick
    \/ \E w \in Workers :
         \/ FetchPending(w)
         \/ SubmitStep(w)
         \/ FetchActive(w)
         \/ PollStep(w)
         \/ FetchTimeout(w)
         \/ TimeoutStep(w)
         \/ FetchRetry(w)
         \/ RetryStep(w)
         \/ Sleep(w)

InitClients ==
    /\ mgr = [c \in Clients |-> NewManager]
    /\ th = [t \in Threads |-> IdleThread]
    /\ InitStore

NextClients ==
    \E t \in Threads :
        \/ GenCall(t)
        \/ Admission(t)
        \/ StartCallback(t)
        \/ JimengUpload(t)
        \/ QwenSubmit(t)
        \/ JimengSubmit(t)
        \/ PollTask(t)
        \/ GenReturn(t)

InitWorker == InitClients

\* One TaskProcessor, the API layer inserting rows, and the clock.
SpecWorker == InitWorker /\ [][NextWorker]_vars

NextLongRun ==
    \/ CreateFirstTask
    \/ TickLong
    \/ \E w \in Workers :
         \/ FetchPending(w)
         \/ SubmitStep(w)
         \/ FetchActive(w)
         \/ PollStep(w)
         \/ FetchTimeout(w)
         \/ TimeoutStep(w)
         \/ FetchRetry(w)
         \/ RetryStep(w)
         \/ Sleep(w)

\* One TaskProcessor and one task, over a longer time.
SpecLongRun == InitWorker /\ [][NextLongRun]_vars

\* Threads calling generate_image with the default use_concurrency_control.
SpecClients == InitClients /\ [][NextClients]_vars

NextCalls ==
    \E t \in 1..NumCallers :
        \/ GenCall(t)
        \/ GenCallUngated(t)
        \/ Admission(t)
        \/ StartCallback(t)
        \/ JimengUpload(t)
        \/ QwenSubmit(t)
        \/ JimengSubmit(t)
        \/ PollTask(t)
        \/ GenReturn(t)

\* Callers that choose use_concurrency_control per call.
SpecCalls == InitClients /\ [][NextCalls]_vars

\* A step inside a generate_image call that has started.
CallStep(t) ==
    \/ Admission(t)
    \/ StartCallback(t)
    \/ JimengUpload(t)
    \/ QwenSubmit(t)
    \/ JimengSubmit(t)
    \/ PollTask(t)

\* SpecClients with threads that keep running: a call that can take a step
\* eventually takes one (the sleeps, the HTTP timeouts and the poll timeout
\* all end).
SpecClientsFair == SpecClients /\ \A t \in Threads : WF_vars(CallStep(t))

(***************************************************************************)
(* TaskProcessor.run with a store that can fail: the try/except of the     *)
(* loop, the error counter, the waits, the reinitialization and the        *)
(* shutdown signal.  SIGINT and SIGTERM are both routed to _signal_handler,*)
(* so a signal never raises KeyboardInterrupt inside run().                *)
(***************************************************************************)
\* How the store answers an update_task call: the UPDATE is committed; the
\* execute raises, is rolled back and update_task returns False; or
\* _get_connection raises, which update_task does not catch.
StoreAnswers == {"ok", "rejected", "unreachable"}

\* How the store answers fetch_query: the rows, or an error that fetch_query
\* prints before it returns the empty list.
FetchAnswers == {"ok", "unreachable"}

Min(a, b) == IF a <= b THEN a ELSE b

\* Mutant: the wait grows with every failure.
wait_time_uncapped(k) == poll_interval * k

\* wait_time of a failed iteration, k the consecutive errors so far.
wait_time(k) == Min(poll_interval * k, max_wait_time)

\* What update_task leaves in the table under a store answer.
written(row, new, o) == IF o = "ok" THEN new ELSE row

\* Mutant: the exception of _submit_task leaves the pass.
process_pending_task_uncaught(task, row, accepted, o1, o2, t) ==
    [row |-> IF accepted
             THEN written(row, update_task(row, "SUBMITTED", NewHandle(task),
                                           None, None, None, FALSE, t), o1)
             ELSE row,
     store |-> IF accepted THEN <<o1>> ELSE <<>>,
     escaped |-> ~accepted \/ o1 = "unreachable"]

\* _process_pending_tasks on one row: _submit_task, whose update_task gets
\* answer o1, and on an exception the FAILED update, which gets the next
\* answer; an exception of that update leaves the pass.
process_pending_task(task, row, accepted, o1, o2, t) ==
    LET submitted == update_task(row, "SUBMITTED", NewHandle(task), None, None,
                                 None, FALSE, t)
        failed == update_task(row, "FAILED", NoHandle, None, None,
                              "submit_failed", FALSE, t)
    IN IF accepted /\ o1 /= "unreachable"
       THEN [row |-> written(row, submitted, o1), store |-> <<o1>>,
             escaped |-> FALSE]
       ELSE LET o == IF accepted THEN o2 ELSE o1
            IN [row |-> written(row, failed, o),
                store |-> IF accepted THEN <<o1, o2>> ELSE <<o1>>,
                escaped |-> o = "unreachable"]

\* _check_task_status on one row under store answers o1 and o2; the
\* exceptions of update_task end in the handler of _handle_task_success or
\* in the one of _poll_active_tasks.
poll_active_task(task, row, remote, post, o1, o2, t) ==
    LET r == check_task_status(task, row, remote, post, t)
        failed == update_task(row, "FAILED", NoHandle, None, None,
                              "postprocess_failed", FALSE, t)
        success == task.task_id /= NoHandle /\ remote = "SUCCESS" /\ post = "ok"
    IN IF r.writes = 0
       THEN [row |-> row, store |-> <<>>, entity_written |-> FALSE]
       ELSE IF success /\ o1 = "unreachable"
       THEN [row |-> written(row, failed, o2), store |-> <<o1, o2>>,
             entity_written |-> TRUE]
       ELSE [row |-> written(row, r.row, o1), store |-> <<o1>>,
             entity_written |-> success]

\* Mutant: the except branch never reinitializes.
on_exception_always_waits(w) ==
    LET k == wk[w].consecutive_errors + 1
    IN [wk EXCEPT ![w].consecutive_errors = k,
                  ![w].batch = <<>>,
                  ![w].pc = "backoff",
                  ![w].wait = wait_time(k)]

\* The except branch of run(): count the error, then reinitialize or wait.
on_exception(w) ==
    LET k == wk[w].consecutive_errors + 1
    IN [wk EXCEPT ![w].consecutive_errors = k,
                  ![w].batch = <<>>,
                  ![w].pc = IF k >= max_consecutive_errors
                            THEN "reinit" ELSE "backoff",
                  ![w].wait = IF k >= max_consecutive_errors
                              THEN 0 ELSE wait_time(k)]

InitRun ==
    /\ mgr = [c \in Clients |-> NewManager]
    /\ th = [t \in Threads |-> IdleThread]
    /\ tasks = [i \in TaskIds |-> NoRow]
    /\ entity = [i \in TaskIds |-> NULL]
    /\ now = 0
    /\ ticks = 0
    /\ wk = [w \in Workers |-> [NewProcessor EXCEPT !.pc = "loop"]]
    /\ last = NoStep

\* Mutant: the loop ends whether or not a signal arrived.
LoopHead_returns_always(w) ==
    /\ wk[w].pc = "loop"
    /\ wk' = [wk EXCEPT ![w].pc = "returned"]
    /\ last' = [NoStep EXCEPT !.kind = "loop"]
    /\ UNCHANGED <<tasks, entity, now, ticks, varsA>>

\* `while self.running`.
LoopHead(w) ==
    /\ wk[w].pc = "loop"
    /\ wk' = [wk EXCEPT ![w].pc = IF wk[w].running
                                  THEN "fetch_pending" ELSE "returned"]
    /\ last' = [NoStep EXCEPT !.kind = "loop"]
    /\ UNCHANGED <<tasks, entity, now, ticks, varsA>>

\* _signal_handler, whenever the signal arrives.
SignalHandler(w) ==
    /\ wk[w].running
    /\ wk[w].pc /= "returned"
    /\ wk' = [wk EXCEPT ![w].running = FALSE]
    /\ UNCHANGED <<tasks, entity, now, ticks, last, varsA>>

\* A pass's query under a store answer.
RunFetch(w, pc, results, work, next) ==
    /\ wk[w].pc = pc
    /\ \E o \in FetchAnswers :
       \E b \in IF o = "ok" THEN results ELSE {<<>>} :
         /\ wk' = [wk EXCEPT ![w].pc = IF b = <<>> THEN next ELSE work,
                             ![w].batch = b, ![w].at = now]
         /\ last' = [NoStep EXCEPT !.kind = pc, !.store = <<o>>]
    /\ UNCHANGED <<tasks, entity, now, ticks, varsA>>

RunFetchPending(w) ==
    RunFetch(w, "fetch_pending", get_pending_tasks(max_pending_batch),
             "submit", "fetch_active")

RunSubmitStep(w) ==
    /\ wk[w].pc = "submit"
    /\ LET task == Head(wk[w].batch)
           i == task.id
       IN \E qf \in 0..MaxQueueFull, then \in {"accepted", "error"} :
          \E o1 \in StoreAnswers :
          \E o2 \in IF submit_task(qf, then).accepted /\ o1 = "unreachable"
                    THEN StoreAnswers ELSE {"ok"} :
            LET result == submit_task(qf, then)
                r == process_pending_task(task.row, tasks[i], result.accepted,
                                          o1, o2, now)
            IN /\ r.escaped => wk[w].consecutive_errors < MaxErrors
               /\ tasks' = [tasks EXCEPT ![i] = r.row]
               /\ last' = [NoStep EXCEPT !.kind = "submit", !.id = i,
                              !.prev = task.row.status, !.qf = qf,
                              !.then = then, !.writes = Len(r.store),
                              !.requests = result.requests,
                              !.store = r.store, !.escaped = r.escaped]
               /\ IF r.escaped
                  THEN wk' = on_exception(w)
                  ELSE Advance(w, "fetch_active")
    /\ UNCHANGED <<entity, now, ticks, varsA>>

RunFetchActive(w) ==
    RunFetch(w, "fetch_active", get_active_tasks(max_active_batch),
             "poll", "fetch_timeout")

RunPollStep(w) ==
    /\ wk[w].pc = "poll"
    /\ LET task == Head(wk[w].batch)
           i == task.id
       IN \E remote \in RemoteAnswers :
          \E post \in IF remote = "SUCCESS" THEN PostOutcomes ELSE {"none"} :
          \E o1 \in StoreAnswers :
          \E o2 \in IF remote = "SUCCESS" /\ post = "ok" /\ o1 = "unreachable"
                    THEN StoreAnswers ELSE {"ok"} :
            LET r == poll_active_task(task.row, tasks[i], remote, post, o1, o2,
                                      now)
            IN /\ tasks' = [tasks EXCEPT ![i] = r.row]
               /\ entity' = IF r.entity_written
                            THEN [entity EXCEPT ![i] = "r2_key"]
                            ELSE entity
               /\ last' = [NoStep EXCEPT !.kind = "poll", !.id = i,
                              !.prev = task.row.status,
                              !.remote = IF task.row.task_id = NoHandle
                                         THEN "none" ELSE remote,
                              !.post = post, !.writes = Len(r.store),
                              !.requests = IF task.row.task_id = NoHandle
                                           THEN 0 ELSE 1,
                              !.store = r.store,
                              !.entity_written = r.entity_written]
    /\ Advance(w, "fetch_timeout")
    /\ UNCHANGED <<now, ticks, varsA>>

RunFetchTimeout(w) ==
    RunFetch(w, "fetch_timeout", get_timeout_tasks(task_timeout),
             "timeout", "fetch_retry")

\* A row of _handle_timeout_tasks or _retry_failed_tasks: one update_task
\* call outside any try.
RunSweepStep(w, pc, kind, new, next) ==
    /\ wk[w].pc = pc
    /\ LET task == Head(wk[w].batch)
           i == task.id
       IN \E o \in StoreAnswers :
            /\ o = "unreachable" => wk[w].consecutive_errors < MaxErrors
            /\ tasks' = [tasks EXCEPT ![i] = written(@, new[i], o)]
            /\ last' = [NoStep EXCEPT !.kind = kind, !.id = i,
                           !.prev = task.row.status, !.writes = 1,
                           !.store = <<o>>, !.escaped = (o = "unreachable")]
            /\ IF o = "unreachable"
               THEN wk' = on_exception(w)
               ELSE Advance(w, next)
    /\ UNCHANGED <<entity, now, ticks, varsA>>

RunTimeoutStep(w) ==
    RunSweepStep(w, "timeout", "timeout",
                 [i \in TaskIds |->
                     update_task(tasks[i], "TIMEOUT", NoHandle, None, None,
                                 "timed_out", FALSE, now)],
                 "fetch_retry")

RunFetchRetry(w) ==
    RunFetch(w, "fetch_retry", get_failed_tasks_for_retry, "retry", "passes_done")

RunRetryStep(w) ==
    RunSweepStep(w, "retry", "retry",
                 [i \in TaskIds |-> reset_task_for_retry(tasks[i], now)],
                 "passes_done")

\* The four passes returned: `self.consecutive_errors = 0`.
PassesDone(w) ==
    /\ wk[w].pc = "passes_done"
    /\ wk' = [wk EXCEPT ![w].pc = "sleep", ![w].consecutive_errors = 0,
                        ![w].wait = poll_interval]
    /\ last' = [NoStep EXCEPT !.kind = "passes_done"]
    /\ UNCHANGED <<tasks, entity, now, ticks, varsA>>

\* A time.sleep of run() ends: after a whole iteration, after a failed one,
\* or after a failed reinitialization.
EndSleep(w) ==
    /\ wk[w].pc \in {"sleep", "backoff", "reinit_wait"}
    /\ wk' = [wk EXCEPT ![w].pc = "loop", ![w].wait = 0]
    /\ last' = [NoStep EXCEPT !.kind = wk[w].pc]
    /\ UNCHANGED <<tasks, entity, now, ticks, varsA>>

\* _initialize_connections called by the except branch: it resets the
\* counter, or raises and the loop sleeps recovery_wait seconds.
Reinitialize(w) ==
    /\ wk[w].pc = "reinit"
    /\ \E then \in {"ok", "raises"} :
         /\ wk' = IF then = "ok"
                  THEN [wk EXCEPT ![w].pc = "loop", ![w].consecutive_errors = 0]
                  ELSE [wk EXCEPT ![w].pc = "reinit_wait",
                                  ![w].wait = recovery_wait]
         /\ last' = [NoStep EXCEPT !.kind = "reinit", !.then = then]
    /\ UNCHANGED <<tasks, entity, now, ticks, varsA>>

\* A step of run().
RunStep(w) ==
    \/ LoopHead(w)
    \/ RunFetchPending(w)
    \/ RunSubmitStep(w)
    \/ RunFetchActive(w)
    \/ RunPollStep(w)
    \/ RunFetchTimeout(w)
    \/ RunTimeoutStep(w)
    \/ RunFetchRetry(w)
    \/ RunRetryStep(w)
    \/ PassesDone(w)
    \/ EndSleep(w)
    \/ Reinitialize(w)

NextRun ==
    \/ CreateFirstTask
    \/ Tick
    \/ \E w \in Workers : SignalHandler(w)
    \/ \E w \in Workers : RunStep(w)

\* run() of one TaskProcessor over one task and a store that can fail.
SpecRun == InitRun /\ [][NextRun]_vars

\* SpecRun with a processor that keeps running: every store call, provider
\* call and sleep ends.
SpecRunFair == SpecRun /\ \A w \in Workers : WF_vars(RunStep(w))

(***************************************************************************)
(* One pass over a batch of several rows, started where run() is when the  *)
(* pass's query has returned.                                              *)
(***************************************************************************)
\* The rows the passes find: a new row, the row after an accepted
\* submission, and the row after the provider reported a failure.
PendingRow == create_task(default_max_retries, 0)
SubmittedRow ==
    update_task(PendingRow, "SUBMITTED", NewHandle(PendingRow), None, None,
                None, FALSE, 0)
FailedRow ==
    update_task(SubmittedRow, "FAILED", NoHandle, None, None,
                "provider_failed", FALSE, 0)

Passes == {"submit", "poll", "timeout", "retry"}

InitPass ==
    /\ mgr = [c \in Clients |-> NewManager]
    /\ th = [t \in Threads |-> IdleThread]
    /\ entity = [i \in TaskIds |-> NULL]
    /\ ticks = 0
    /\ \E pass \in Passes :
         /\ tasks = [i \in TaskIds |->
                        CASE pass = "submit" -> PendingRow
                          [] pass \in {"poll", "timeout"} -> SubmittedRow
                          [] OTHER -> FailedRow]
         /\ now = IF pass = "timeout" THEN task_timeout + 1 ELSE 0
         /\ \E b \in CASE pass = "submit" -> get_pending_tasks(max_pending_batch)
                       [] pass = "poll" -> get_active_tasks(max_active_batch)
                       [] pass = "timeout" -> get_timeout_tasks(task_timeout)
                       [] OTHER -> get_failed_tasks_for_retry :
              /\ wk = [w \in Workers |->
                          [NewProcessor EXCEPT !.pc = pass, !.batch = b,
                                               !.at = now]]
              /\ last = [NoStep EXCEPT !.kind = "fetch", !.store = <<"ok">>]

NextPass ==
    \E w \in Workers :
        \/ RunSubmitStep(w)
        \/ RunPollStep(w)
        \/ RunTimeoutStep(w)
        \/ RunRetryStep(w)

\* Each of the four passes over a batch of NumTasks rows.
SpecPass == InitPass /\ [][NextPass]_vars

(***************************************************************************)
(* Two TaskProcessor processes started against the same table: main() can  *)
(* be run more than once, nothing locks the table.                         *)
(***************************************************************************)
Processes == {"processor", "processor2"}

InitProcesses ==
    /\ mgr = [c \in Clients |-> NewManager]
    /\ th = [t \in Threads |-> IdleThread]
    /\ tasks = [i \in TaskIds |-> NoRow]
    /\ entity = [i \in TaskIds |-> NULL]
    /\ now = 0
    /\ ticks = 0
    /\ wk = [w \in Processes |-> NewProcessor]
    /\ last = NoStep

\* time.sleep(poll_interval), then the next iteration, counted.
NextLoop(w) ==
    /\ wk[w].pc = "sleep"
    /\ wk[w].loop_count < MaxLoops
    /\ wk' = [wk EXCEPT ![w].pc = "fetch_pending", ![w].loop_count = @ + 1]
    /\ last' = [NoStep EXCEPT !.kind = "sleep"]
    /\ UNCHANGED <<tasks, entity, now, ticks, varsA>>

NextProcesses ==
    \/ CreateFirstTask
    \/ Tick
    \/ \E w \in Processes :
         \/ FetchPending(w)
         \/ SubmitStep(w)
         \/ FetchActive(w)
         \/ PollStep(w)
         \/ FetchTimeout(w)
         \/ TimeoutStep(w)
         \/ FetchRetry(w)
         \/ RetryStep(w)
         \/ NextLoop(w)

\* Two processors over one task, each for MaxLoops iterations.
SpecProcesses == InitProcesses /\ [][NextProcesses]_vars

(***************************************************************************)
(* generate_img2video (WanVaceImg2VideoRH): the whole call is the body of  *)
(* `for attempt in range(max_retries + 1)`; the module has its own manager,*)
(* _video_concurrency_manager.                                             *)
(*   accepted  the submissions of this call the provider accepted (history)*)
(***************************************************************************)
IdleVideoCall ==
    [pc |-> "idle", client |-> "none", attempt |-> 0, acq |-> 0, rel |-> 0,
     accepted |-> 0, exit |-> "none"]

\* `if attempt < max_retries: continue`.
video_retries(attempt) == attempt < video_max_retries

\* generate_img2video(...), use_concurrency_control left at its default True.
VideoCall(t) ==
    /\ th[t].pc = "idle"
    /\ th' = [th EXCEPT ![t] = [IdleVideoCall EXCEPT !.client = "wan",
                                                     !.pc = "wait"]]
    /\ UNCHANGED <<mgr, varsB>>

\* One turn of `while not try_submit_task(): sleep(2)`.
VideoAdmission(t) ==
    /\ th[t].pc = "wait"
    /\ LET r == try_submit_task(mgr["wan"]) IN
         /\ mgr' = [mgr EXCEPT !["wan"] = r.st]
         /\ th' = IF r.ok
                  THEN [th EXCEPT ![t].pc = "submit", ![t].acq = @ + 1]
                  ELSE th
    /\ UNCHANGED varsB

\* An attempt failed by path `label`: task_finished(), then the next attempt
\* after retry_delay, or `return None` when the attempts are used up.
VideoAttemptFailed(t, label, accepted) ==
    /\ mgr' = [mgr EXCEPT !["wan"] = task_finished(@)]
    /\ th' = IF video_retries(th[t].attempt)
             THEN [th EXCEPT ![t].pc = "wait", ![t].attempt = @ + 1,
                             ![t].rel = @ + 1,
                             ![t].accepted = @ + accepted]
             ELSE [th EXCEPT ![t].pc = "done", ![t].exit = label,
                             ![t].rel = @ + 1,
                             ![t].accepted = @ + accepted]
    /\ UNCHANGED varsB

\* The submission request and the provider's answer to it.
VideoSubmit(t) ==
    /\ th[t].pc = "submit"
    /\ \E a \in {"accepted", "odd_status", "refused", "raises"} :
         CASE a = "accepted" ->
                /\ th' = [th EXCEPT ![t].pc = "poll", ![t].accepted = @ + 1]
                /\ UNCHANGED <<mgr, varsB>>
           [] a = "odd_status" -> VideoAttemptFailed(t, "odd_status", 1)
           [] a = "refused" -> VideoAttemptFailed(t, "submission_failed", 0)
           [] OTHER -> VideoAttemptFailed(t, "exception", 0)

\* _poll_task_status: one poll of the provider; it returns the outputs, or
\* None on a timeout, a provider failure, or when no output is found.
VideoPoll(t) ==
    /\ th[t].pc = "poll"
    /\ \E a \in {"pending", "success", "no_output", "fail", "timeout"} :
         CASE a = "pending" -> UNCHANGED vars
           [] a = "success" ->
                /\ mgr' = [mgr EXCEPT !["wan"] = task_finished(@)]
                /\ th' = [th EXCEPT ![t].pc = "done", ![t].exit = "success",
                                    ![t].rel = @ + 1]
                /\ UNCHANGED varsB
           [] a = "no_output" -> VideoAttemptFailed(t, "output_missing", 0)
           [] a = "fail" -> VideoAttemptFailed(t, "provider_failure", 0)
           [] OTHER -> VideoAttemptFailed(t, "poll_timeout", 0)

\* The call has returned; the thread may call again.
VideoReturn(t) ==
    /\ th[t].pc = "done"
    /\ th' = [th EXCEPT ![t] = IdleVideoCall]
    /\ UNCHANGED <<mgr, varsB>>

InitVideo ==
    /\ mgr = [c \in {"wan"} |-> NewManager]
    /\ th = [t \in Threads |-> IdleVideoCall]
    /\ InitStore

NextVideo ==
    \E t \in 1..NumCallers :
        \/ VideoCall(t)
        \/ VideoAdmission(t)
        \/ VideoSubmit(t)
        \/ VideoPoll(t)
        \/ VideoReturn(t)

\* Threads calling generate_img2video.
SpecVideo == InitVideo /\ [][NextVideo]_vars

(***************************************************************************)
(* generate_img2img (FluxKontextImg2ImgRH): one try block with the         *)
(* admission loop, the upload, one submission and the poll; every return   *)
(* path calls task_finished() itself, and so does the except branch.  The  *)
(* module has its own manager.                                             *)
(*   requests  the submission requests of this call (history)              *)
(***************************************************************************)
IdleImgCall ==
    [pc |-> "idle", client |-> "none", acq |-> 0, rel |-> 0, requests |-> 0,
     exit |-> "none"]

\* task_finished() calls made by the handler around _poll_task_status,
\* which then re-raises into the outer except branch.
poll_handler_releases == 1

RECURSIVE task_finished_times(_, _)
task_finished_times(s, n) ==
    IF n = 0 THEN s ELSE task_finished_times(task_finished(s), n - 1)

\* The call returns by path `label` after n calls of task_finished().
ImgExit(t, label, n) ==
    /\ mgr' = [mgr EXCEPT !["flux"] = task_finished_times(@, n)]
    /\ th' = [th EXCEPT ![t].pc = "done", ![t].exit = label, ![t].rel = @ + n]
    /\ UNCHANGED varsB

\* generate_img2img(...), use_concurrency_control left at its default True.
ImgCall(t) ==
    /\ th[t].pc = "idle"
    /\ th' = [th EXCEPT ![t] = [IdleImgCall EXCEPT !.client = "flux",
                                                   !.pc = "wait"]]
    /\ UNCHANGED <<mgr, varsB>>

\* One turn of `while not try_submit_task(): sleep(2)`.
ImgAdmission(t) ==
    /\ th[t].pc = "wait"
    /\ LET r == try_submit_task(mgr["flux"]) IN
         /\ mgr' = [mgr EXCEPT !["flux"] = r.st]
         /\ th' = IF r.ok
                  THEN [th EXCEPT ![t].pc = "upload", ![t].acq = @ + 1]
                  ELSE th
    /\ UNCHANGED varsB

\* The upload of a local file (skipped for an uploaded file's name).
ImgUpload(t) ==
    /\ th[t].pc = "upload"
    /\ \E a \in {"ok", "failed", "raises"} :
         CASE a = "ok" -> /\ th' = [th EXCEPT ![t].pc = "submit"]
                          /\ UNCHANGED <<mgr, varsB>>
           [] a = "failed" -> ImgExit(t, "upload_failed", 1)
           [] OTHER -> ImgExit(t, "exception", 1)

\* The single submission request and the provider's answer.
ImgSubmit(t) ==
    /\ th[t].pc = "submit"
    /\ \E a \in {"accepted", "odd_status", "queue_full", "error", "raises"} :
         LET sent == [th EXCEPT ![t].requests = @ + 1] IN
         CASE a = "accepted" -> /\ th' = [sent EXCEPT ![t].pc = "poll"]
                                /\ UNCHANGED <<mgr, varsB>>
           [] OTHER ->
                /\ mgr' = [mgr EXCEPT !["flux"] = task_finished(@)]
                /\ th' = [sent EXCEPT ![t].pc = "done", ![t].rel = @ + 1,
                             ![t].exit =
                                 CASE a = "odd_status" -> "odd_status"
                                   [] a = "queue_full" -> "queue_full"
                                   [] a = "error" -> "submission_failed"
                                   [] OTHER -> "exception"]
                /\ UNCHANGED varsB

\* _poll_task_status inside its own try: a result or None is returned after
\* task_finished(); an exception goes through the handler and then through
\* the outer except branch, which calls task_finished().
ImgPoll(t) ==
    /\ th[t].pc = "poll"
    /\ \E a \in {"pending", "success", "no_output", "fail", "timeout", "raises"} :
         CASE a = "pending" -> UNCHANGED vars
           [] a = "success" -> ImgExit(t, "success", 1)
           [] a = "no_output" -> ImgExit(t, "output_missing", 1)
           [] a = "fail" -> ImgExit(t, "provider_failure", 1)
           [] a = "timeout" -> ImgExit(t, "poll_timeout", 1)
           [] OTHER -> ImgExit(t, "poll_exception", poll_handler_releases + 1)

\* The call has returned; the thread may call again.
ImgReturn(t) ==
    /\ th[t].pc = "done"
    /\ th' = [th EXCEPT ![t] = IdleImgCall]
    /\ UNCHANGED <<mgr, varsB>>

InitImg ==
    /\ mgr = [c \in {"flux"} |-> NewManager]
    /\ th = [t \in Threads |-> IdleImgCall]
    /\ InitStore

NextImg ==
    \E t \in Threads :
        \/ ImgCall(t)
        \/ ImgAdmission(t)
        \/ ImgUpload(t)
        \/ ImgSubmit(t)
        \/ ImgPoll(t)
        \/ ImgReturn(t)

\* Threads calling generate_img2img.
SpecImg == InitImg /\ [][NextImg]_vars

(***************************************************************************)
(* The submit pass and the poll pass over a table with more PENDING rows   *)
(* than max_pending_batch, started where run() is when the pass's query    *)
(* has returned.                                                           *)
(***************************************************************************)
RowIds == 1..NumRows

\* created_at by row id: the rows were inserted one a minute, in id order
\* from some row on, forwards or backwards, or two a minute.
InsertTimes ==
    {[i \in RowIds |-> (i + shift) % NumRows] : shift \in 0..(NumRows - 1)}
    \cup {[i \in RowIds |-> (NumRows - i + shift) % NumRows] :
             shift \in 0..(NumRows - 1)}
    \cup {[i \in RowIds |-> i \div 2]}

\* The rows that a submit pass has moved to SUBMITTED, by submitted_at.
SubmitTimes == [1..NumActive -> 0..1]

InitOrder ==
    /\ mgr = [c \in Clients |-> NewManager]
    /\ th = [t \in Threads |-> IdleThread]
    /\ entity = [i \in RowIds |-> NULL]
    /\ ticks = 0
    /\ now = NumRows
    /\ \/ /\ \E c \in InsertTimes :
               tasks = [i \in RowIds |-> create_task(default_max_retries, c[i])]
          /\ \E b \in get_pending_tasks(max_pending_batch) :
               wk = [w \in Workers |->
                        [NewProcessor EXCEPT !.pc = "submit", !.batch = b,
                                             !.at = now]]
       \/ /\ \E c \in SubmitTimes :
               tasks = [i \in RowIds |->
                           IF i \in DOMAIN c
                           THEN update_task(PendingRow, "SUBMITTED",
                                            NewHandle(PendingRow), None, None,
                                            None, FALSE, c[i])
                           ELSE create_task(default_max_retries, now)]
          /\ \E b \in get_active_tasks(max_active_batch) :
               wk = [w \in Workers |->
                        [NewProcessor EXCEPT !.pc = "poll", !.batch = b,
                                             !.at = now]]
    /\ last = [NoStep EXCEPT !.kind = "fetch"]

NextOrder ==
    \E w \in Workers :
        \/ SubmitStep(w)
        \/ PollStep(w)

\* One submit pass or one poll pass over a table of NumRows rows.
SpecOrder == InitOrder /\ [][NextOrder]_vars

(***************************************************************************)
(* The manager's methods called in any order.  The manager of the jimeng   *)
(* module has no task_failed_before_running.                               *)
(***************************************************************************)
TrySubmit(c) ==
    /\ mgr[c].running < MaxRunning
    /\ mgr' = [mgr EXCEPT ![c] = try_submit_task(@).st]

TaskFinished(c) ==
    mgr' = [mgr EXCEPT ![c] = task_finished(@)]

TaskFailedBeforeRunning(c) ==
    /\ c = "qwen"
    /\ mgr' = [mgr EXCEPT ![c] = task_failed_before_running(@)]

NextManager ==
    /\ \E c \in Clients :
          \/ TrySubmit(c)
          \/ TaskFinished(c)
          \/ TaskFailedBeforeRunning(c)
    /\ UNCHANGED <<th, varsB>>

SpecManager == InitClients /\ [][NextManager]_vars

(***************************************************************************)
(* _poll_task_status of the qwen, jimeng and flux clients, one status      *)
(* request a step.  `errors` counts the requests that failed in a row,     *)
(* `rounds` the poll intervals slept.                                      *)
(***************************************************************************)
PollClients == {"qwen", "jimeng", "flux"}

\* What a status request gives: the request raises or the body is no JSON,
\* the API answers with code /= 0, or a status.
PollAnswers == {"raises", "error_response", "QUEUED", "RUNNING", "UNKNOWN", "SUCCESS", "FAIL"}

IdlePoll ==
    [pc |-> "idle", client |-> "none", errors |-> 0, rounds |-> 0,
     exit |-> "none"]

\* qwen: the inner loop counts current_retries down from max_poll_retries on
\* every exception, a code /= 0 included; at 0 the loop ends with
\* poll_successful False and None is returned.  A status ends the inner
\* loop and the next round starts with a fresh count.
qwen_poll(a, errors) ==
    CASE a = "SUCCESS" -> [exit |-> "success", errors |-> 0, slept |-> 0]
      [] a = "FAIL" -> [exit |-> "provider_failure", errors |-> 0, slept |-> 0]
      [] a \in {"QUEUED", "RUNNING", "UNKNOWN"} ->
            [exit |-> "none", errors |-> 0, slept |-> 1]
      [] OTHER ->
            IF errors + 1 >= max_poll_retries
            THEN [exit |-> "poll_errors", errors |-> errors + 1, slept |-> 0]
            ELSE [exit |-> "none", errors |-> errors + 1, slept |-> 0]

\* jimeng: an exception and a code /= 0 are logged; the loop sleeps and goes
\* on while the timeout has not passed.
jimeng_poll(a, errors) ==
    CASE a = "SUCCESS" -> [exit |-> "success", errors |-> 0, slept |-> 0]
      [] a = "FAIL" -> [exit |-> "provider_failure", errors |-> 0, slept |-> 0]
      [] a \in {"QUEUED", "RUNNING", "UNKNOWN"} ->
            [exit |-> "none", errors |-> 0, slept |-> 1]
      [] OTHER -> [exit |-> "none", errors |-> errors + 1, slept |-> 1]

\* flux: a code /= 0 returns None at once; an exception is logged and the
\* loop sleeps and goes on.
flux_poll(a, errors) ==
    CASE a = "SUCCESS" -> [exit |-> "success", errors |-> 0, slept |-> 0]
      [] a = "FAIL" -> [exit |-> "provider_failure", errors |-> 0, slept |-> 0]
      [] a \in {"QUEUED", "RUNNING", "UNKNOWN"} ->
            [exit |-> "none", errors |-> 0, slept |-> 1]
      [] a = "error_response" ->
            [exit |-> "poll_errors", errors |-> errors + 1, slept |-> 0]
      [] OTHER -> [exit |-> "none", errors |-> errors + 1, slept |-> 1]

poll_once(client, a, errors) ==
    CASE client = "qwen" -> qwen_poll(a, errors)
      [] client = "jimeng" -> jimeng_poll(a, errors)
      [] OTHER -> flux_poll(a, errors)

\* The submission was accepted; the call enters _poll_task_status.
PollCall(t) ==
    /\ th[t].pc = "idle"
    /\ \E c \in PollClients :
         th' = [th EXCEPT ![t] = [IdlePoll EXCEPT !.pc = "poll", !.client = c]]
    /\ UNCHANGED <<mgr, varsB>>

\* The timeout test at the head of the loop.
PollTimeout(t) ==
    /\ th[t].pc = "poll"
    /\ th[t].rounds >= PollRounds
    /\ th' = [th EXCEPT ![t].pc = "done", ![t].exit = "poll_timeout"]
    /\ UNCHANGED <<mgr, varsB>>

\* One status request and what the loop does with its answer.
PollRequest(t) ==
    /\ th[t].pc = "poll"
    /\ th[t].rounds < PollRounds
    /\ \E a \in PollAnswers :
         LET r == poll_once(th[t].client, a, th[t].errors)
         IN th' = [th EXCEPT ![t].pc = IF r.exit = "none" THEN "poll" ELSE "done",
                             ![t].exit = r.exit,
                             ![t].errors = r.errors,
                             ![t].rounds = @ + r.slept]
    /\ UNCHANGED <<mgr, varsB>>

PollReturn(t) ==
    /\ th[t].pc = "done"
    /\ th' = [th EXCEPT ![t] = IdlePoll]
    /\ UNCHANGED <<mgr, varsB>>

InitPoll ==
    /\ mgr = [c \in PollClients |-> NewManager]
    /\ th = [t \in Threads |-> IdlePoll]
    /\ InitStore

NextPoll ==
    \E t \in 1..NumPollers :
        \/ PollCall(t)
        \/ PollTimeout(t)
        \/ PollRequest(t)
        \/ PollReturn(t)

\* Calls that are in the poll loop of their client.
SpecPoll == InitPoll /\ [][NextPoll]_vars

(***************************************************************************)
(* The head of generate_image (qwen, jimeng) with use_concurrency_control  *)
(* True: the admission loop, on_start_callback, the submission request.    *)
(*   on_start_callback  none (not supplied), or what the callback does     *)
(*   called    invocations of the callback in this call (history)          *)
(*   requests  submission requests sent by this call (history)             *)
(***************************************************************************)
IdleStart ==
    [pc |-> "idle", client |-> "none", on_start_callback |-> "none",
     slot |-> FALSE, called |-> 0, requests |-> 0]

StartCall(t) ==
    /\ th[t].pc = "idle"
    /\ \E c \in Clients, cb \in {"none", "returns", "raises"} :
         th' = [th EXCEPT ![t] = [IdleStart EXCEPT !.pc = "wait", !.client = c,
                                                   !.on_start_callback = cb]]
    /\ UNCHANGED <<mgr, varsB>>

\* Mutant: the callback also runs in every turn of the admission loop that
\* finds no slot.
StartAdmission_callback_while_waiting(t) ==
    /\ th[t].pc = "wait"
    /\ LET r == try_submit_task(mgr[th[t].client]) IN
         /\ mgr' = [mgr EXCEPT ![th[t].client] = r.st]
         /\ th' = IF r.ok
                  THEN [th EXCEPT ![t].pc = "callback", ![t].slot = TRUE]
                  ELSE [th EXCEPT ![t].called =
                           IF th[t].on_start_callback /= "none" /\ @ = 0
                           THEN 1 ELSE @]
    /\ UNCHANGED varsB

\* One turn of `while not try_submit_task(): sleep(2)`, then
\* slot_acquired = True.
StartAdmission(t) ==
    /\ th[t].pc = "wait"
    /\ LET r == try_submit_task(mgr[th[t].client]) IN
         /\ mgr' = [mgr EXCEPT ![th[t].client] = r.st]
         /\ th' = IF r.ok
                  THEN [th EXCEPT ![t].pc = "callback", ![t].slot = TRUE]
                  ELSE th
    /\ UNCHANGED varsB

\* The rest of the call and its finally block.
StartExit(calls, t) ==
    /\ th' = [calls EXCEPT ![t].pc = "done", ![t].slot = FALSE]
    /\ mgr' = IF th[t].slot
              THEN [mgr EXCEPT ![th[t].client] = task_finished(@)] ELSE mgr
    /\ UNCHANGED varsB

\* `if on_start_callback: on_start_callback()`; an exception of the callback
\* is caught by the call's except branch.
StartInvoke(t) ==
    /\ th[t].pc = "callback"
    /\ CASE th[t].on_start_callback = "none" ->
              /\ th' = [th EXCEPT ![t].pc = "submit"]
              /\ UNCHANGED <<mgr, varsB>>
         [] th[t].on_start_callback = "returns" ->
              /\ th' = [th EXCEPT ![t].pc = "submit", ![t].called = @ + 1]
              /\ UNCHANGED <<mgr, varsB>>
         [] OTHER -> StartExit([th EXCEPT ![t].called = @ + 1], t)

\* The submission request is sent; what follows ends in the finally block.
StartRequest(t) ==
    /\ th[t].pc = "submit"
    /\ StartExit([th EXCEPT ![t].requests = @ + 1], t)

StartReturn(t) ==
    /\ th[t].pc = "done"
    /\ th' = [th EXCEPT ![t] = IdleStart]
    /\ UNCHANGED <<mgr, varsB>>

InitStart ==
    /\ mgr = [c \in Clients |-> NewManager]
    /\ th = [t \in Threads |-> IdleStart]
    /\ InitStore

NextStart ==
    \E t \in Threads :
        \/ StartCall(t)
        \/ StartAdmission(t)
        \/ StartInvoke(t)
        \/ StartRequest(t)
        \/ StartReturn(t)

\* Threads calling generate_image with a start callback.
SpecStart == InitStart /\ [][NextStart]_vars

(***************************************************************************)
(* The worker loop iterating for ever over one task, with a store that     *)
(* does not fail and a clock that moves on while a task in reach of the    *)
(* queries waits for its timeout.                                          *)
(***************************************************************************)
WaitsForTimeout(row, t) ==
    /\ row.status \in ActiveStatuses
    /\ WithinMaxAge(row, t)
    /\ ~(row.submitted_at < t - task_timeout)

TimePasses ==
    /\ \E i \in DOMAIN tasks : WaitsForTimeout(tasks[i], now)
    /\ \E d \in TickSteps : now' = now + d
    /\ ticks' = ticks + 1
    /\ UNCHANGED <<tasks, entity, wk, last, varsA>>

\* One step of run(): a query or one row of a pass, or the sleep.
LiveStep(w) ==
    \/ FetchPending(w)
    \/ SubmitStep(w)
    \/ FetchActive(w)
    \/ PollStep(w)
    \/ FetchTimeout(w)
    \/ TimeoutStep(w)
    \/ FetchRetry(w)
    \/ RetryStep(w)
    \/ Sleep(w)

NextLive ==
    \/ CreateFirstTask
    \/ TimePasses
    \/ \E w \in Workers : LiveStep(w)

\* run() never stops iterating and time never stops passing.
SpecLive ==
    /\ InitWorker /\ [][NextLive]_vars
    /\ WF_vars(TimePasses)
    /\ \A w \in Workers : WF_vars(LiveStep(w))

(***************************************************************************)
(* An entity's image task from its creation by AsyncImageService to the    *)
(* worker's post-processing: which table each side addresses and which     *)
(* storage key each side computes.  A key is the list of its path segments,*)
(* the last one the file name with its extension.                          *)
(*   looked_up  table that submit_task read the entity from                *)
(*   updated    table that _update_entity_image wrote                      *)
(*   r2_key     key that _get_r2_key computed for the upload                *)
(***************************************************************************)
NumRequests == 2
NumEpisodes == 2
EntityTypes == {"character", "scene", "prop"}
EntityNames == {"LiMing", "Teahouse"}

ENTITY_CONFIG(entity_type) ==
    CASE entity_type = "character" ->
           [table |-> "character_portraits", name_field |-> "character_name",
            r2_path |-> "characters", task_type |-> "CHARACTER_IMAGE"]
      [] entity_type = "scene" ->
           [table |-> "scene_definitions", name_field |-> "scene_name",
            r2_path |-> "scenes", task_type |-> "SCENE_IMAGE"]
      [] entity_type = "prop" ->
           [table |-> "key_prop_definitions", name_field |-> "prop_name",
            r2_path |-> "props", task_type |-> "PROP_IMAGE"]

\* AsyncImageService.get_r2_key:
\* f"tiangui/{episode_number}/{config['r2_path']}/{entity_name}.jpg".
get_r2_key(entity_type, episode_number, entity_name) ==
    <<"tiangui", episode_number, ENTITY_CONFIG(entity_type).r2_path,
      <<entity_name, ".jpg">>>>

\* TaskProcessor._get_r2_key: one f-string per entity type.
processor_get_r2_key(task) ==
    CASE task.entity_type = "character" ->
           <<"tiangui", task.episode_number, "characters", <<task.entity_name, ".jpg">>>>
      [] task.entity_type = "scene" ->
           <<"tiangui", task.episode_number, "scenes", <<task.entity_name, ".jpg">>>>
      [] task.entity_type = "prop" ->
           <<"tiangui", task.episode_number, "props", <<task.entity_name, ".jpg">>>>

\* table_map of TaskProcessor._update_entity_image.
table_map(entity_type) ==
    CASE entity_type = "character" -> "character_portraits"
      [] entity_type = "scene" -> "scene_definitions"
      [] entity_type = "prop" -> "props"

IdleEntity ==
    [pc |-> "idle", entity_type |-> "none", episode_number |-> 0,
     entity_name |-> "none", looked_up |-> "none", updated |-> "none",
     r2_key |-> <<>>]

\* AsyncImageService.submit_task: the entity is read from the table of
\* ENTITY_CONFIG; a missing row raises ValueError, a found one gives the
\* task its entity_name and episode_number.
ServiceSubmit(t) ==
    /\ th[t].pc = "idle"
    /\ \E entity_type \in EntityTypes, found \in BOOLEAN,
          episode_number \in 1..NumEpisodes, entity_name \in EntityNames :
         LET config == ENTITY_CONFIG(entity_type) IN
         th' = [th EXCEPT ![t] =
                  IF found
                  THEN [IdleEntity EXCEPT !.pc = "created",
                                          !.entity_type = entity_type,
                                          !.episode_number = episode_number,
                                          !.entity_name = entity_name,
                                          !.looked_up = config.table]
                  ELSE [IdleEntity EXCEPT !.pc = "not_found",
                                          !.entity_type = entity_type,
                                          !.looked_up = config.table]]
    /\ UNCHANGED <<mgr, varsB>>

\* _handle_task_success for the task: r2_key = self._get_r2_key(task), then
\* _update_entity_image runs its UPDATE on table_map's table.
ProcessorSuccess(t) ==
    /\ th[t].pc = "created"
    /\ th' = [th EXCEPT ![t].pc = "processed",
                        ![t].r2_key = processor_get_r2_key(th[t]),
                        ![t].updated = table_map(th[t].entity_type)]
    /\ UNCHANGED <<mgr, varsB>>

\* The request is over: the ValueError was reported, or the task is done.
EntityDone(t) ==
    /\ th[t].pc \in {"not_found", "processed"}
    /\ th' = [th EXCEPT ![t] = IdleEntity]
    /\ UNCHANGED <<mgr, varsB>>

InitEntity ==
    /\ mgr = [c \in Clients |-> NewManager]
    /\ th = [t \in 1..NumRequests |-> IdleEntity]
    /\ InitStore

NextEntity ==
    \E t \in 1..NumRequests :
        \/ ServiceSubmit(t)
        \/ ProcessorSuccess(t)
        \/ EntityDone(t)

\* Image tasks created by the API service and post-processed by the worker.
SpecEntity == InitEntity /\ [][NextEntity]_vars

(***************************************************************************)
(* Claims about the admission controller and generate_image.               *)
(***************************************************************************)
\* The calls on manager c that acquired a slot and have not given it back.
Unreleased(c) == {t \in Threads : th[t].client = c /\ th[t].acq > th[t].rel}

\* C1: for each manager, the successful try_submit_task calls not yet matched
\* by a task_finished number at most max_concurrent, and submitted_tasks
\* never exceeds max_concurrent.
C1_AdmissionBound ==
    \A c \in Clients :
        /\ Cardinality(Unreleased(c)) <= max_concurrent
        /\ mgr[c].submitted <= max_concurrent

\* A manager is full and a further caller is turned away in the admission loop.
C1_Witness ==
    \E c \in Clients, t \in Threads :
        /\ Cardinality(Unreleased(c)) = max_concurrent
        /\ mgr[c].submitted = max_concurrent
        /\ th[t].pc = "wait" /\ th[t].client = c
        /\ ~try_submit_task(mgr[c]).ok

\* C2: a generate_image call that acquired a slot has called task_finished
\* exactly once when it returns, by whichever path; a call that acquired none
\* never calls it; so each manager's counters equal the number of calls that
\* currently hold a slot (a finished call's net effect is zero).
C2_ReleasedOncePerExit ==
    /\ \A t \in Threads :
          th[t].pc = "done" =>
              /\ th[t].acq = (IF th[t].slot THEN 1 ELSE 0)
              /\ th[t].rel = th[t].acq
    /\ \A c \in Clients :
          /\ mgr[c].submitted = Cardinality(Unreleased(c))
          /\ mgr[c].running = Cardinality(Unreleased(c))

\* Two gated calls have returned, one by an exception inside the call and one
\* by an exception of on_start_callback, while a third still holds its slot.
C2_Witness ==
    \E t, u, v \in Threads :
        /\ th[t].pc = "done" /\ th[t].slot /\ th[t].exit = "exception"
        /\ th[t].rel = 1
        /\ th[u].pc = "done" /\ th[u].slot /\ th[u].exit = "callback_exception"
        /\ th[u].rel = 1
        /\ th[v].pc = "poll" /\ th[v].slot
        /\ mgr[th[v].client].submitted = 1

\* C10: the gated requests outstanding at the provider, over all client
\* classes of the process, number at most max_concurrent.
C10_InFlightBound ==
    Cardinality({t \in Threads : th[t].slot /\ th[t].pc = "poll"}) <= max_concurrent

(***************************************************************************)
(* Claims about the task table and the worker loop.                        *)
(***************************************************************************)
LegalTransitions ==
    ({"PENDING"} \X {"SUBMITTED", "FAILED"})
    \cup (ActiveStatuses \X {"QUEUED", "RUNNING", "SUCCESS", "FAILED", "TIMEOUT"})
    \cup {<<"FAILED", "PENDING">>}

\* C3: with one TaskProcessor and an API layer that only inserts PENDING rows,
\* every change of a task's status is PENDING->SUBMITTED, PENDING->FAILED,
\* active->{QUEUED, RUNNING, SUCCESS, FAILED, TIMEOUT} or FAILED->PENDING; a
\* row starts PENDING, and a SUCCESS row never changes status again.
C3_LegalTransitions ==
    [][\A i \in TaskIds :
          tasks'[i].status /= tasks[i].status =>
              IF tasks[i].status = "NONE"
              THEN tasks'[i].status = "PENDING"
              ELSE <<tasks[i].status, tasks'[i].status>> \in LegalTransitions]_vars

\* One task has finished with SUCCESS while another was reset by the retry
\* sweep and is PENDING again.
C3_Witness ==
    \E i, j \in TaskIds :
        /\ tasks[i].status = "SUCCESS"
        /\ tasks[j].status = "PENDING" /\ tasks[j].retry_count > 0

\* A row the timeout query's WHERE clause without the age condition selects.
Overdue(row, t) ==
    /\ row.status \in ActiveStatuses
    /\ row.submitted_at /= NoTime
    /\ row.submitted_at < t - task_timeout

\* The retry sweep has run and the worker is about to sleep.
AfterRetrySweep(w) == wk[w].pc = "sleep"

\* The timeout sweep has run and the retry sweep is about to start.
AfterTimeoutSweep(w) == wk[w].pc = "fetch_retry"

\* C4 as stated: after every retry sweep no FAILED task with retry_count <
\* max_retries is left, so an always-failing task is reset max_retries times.
C4_Original ==
    \A w \in Workers :
        AfterRetrySweep(w) =>
            \A i \in TaskIds :
                ~(tasks[i].status = "FAILED"
                  /\ tasks[i].retry_count < tasks[i].max_retries)

C4_BudgetState ==
    /\ \A i \in TaskIds : tasks[i].retry_count <= tasks[i].max_retries
    /\ \A w \in Workers :
          AfterRetrySweep(w) =>
              \A i \in TaskIds :
                  ~(/\ tasks[i].status = "FAILED"
                    /\ tasks[i].retry_count < tasks[i].max_retries
                    /\ WithinMaxAge(tasks[i], wk[w].at))

C4_BudgetStep ==
    \A i \in TaskIds :
        /\ tasks'[i].retry_count /= tasks[i].retry_count =>
              /\ tasks[i].status = "FAILED" /\ tasks'[i].status = "PENDING"
              /\ tasks'[i].retry_count = tasks[i].retry_count + 1
        /\ tasks[i].status = "FAILED" /\ tasks'[i].status = "PENDING" =>
              tasks'[i].retry_count = tasks[i].retry_count + 1
        /\ tasks[i].status = "FAILED"
              /\ tasks[i].retry_count >= tasks[i].max_retries =>
              tasks'[i] = tasks[i]

\* C4, amended: a retry sweep resets every FAILED task that has retry_count <
\* max_retries and was created less than max_age_days before the sweep's
\* query; each reset adds one to retry_count, which never exceeds max_retries
\* (at most max_retries resets, max_retries + 1 attempts); a FAILED task with
\* retry_count = max_retries is never changed again.
C4_RetryBudget == []C4_BudgetState /\ [][C4_BudgetStep]_vars

\* A task has failed max_retries + 1 times and a retry sweep has passed it by.
C4_Witness ==
    \E i \in TaskIds, w \in Workers :
        /\ tasks[i].status = "FAILED"
        /\ tasks[i].retry_count = default_max_retries
        /\ AfterRetrySweep(w) /\ last.kind = "fetch_retry"

\* C5 as stated: after every timeout sweep no active task is left whose
\* submitted_at is older than the threshold.
C5_Original ==
    \A w \in Workers :
        AfterTimeoutSweep(w) =>
            \A i \in TaskIds : ~Overdue(tasks[i], wk[w].at)

\* C5, amended: after a timeout sweep no active task is left whose
\* submitted_at was older than the threshold and whose created_at was less
\* than max_age_days old at the sweep's query, whatever the polls answered;
\* a step of the sweep writes TIMEOUT and sends the provider nothing.
C5_TimeoutSweep ==
    /\ \A w \in Workers :
          AfterTimeoutSweep(w) =>
              \A i \in TaskIds :
                  ~(Overdue(tasks[i], wk[w].at) /\ WithinMaxAge(tasks[i], wk[w].at))
    /\ last.kind = "timeout" =>
          /\ tasks[last.id].status = "TIMEOUT"
          /\ last.requests = 0

\* A task that the polls left RUNNING has been moved to TIMEOUT by the sweep.
C5_Witness ==
    \E w \in Workers :
        /\ AfterTimeoutSweep(w)
        /\ last.kind = "timeout" /\ last.prev = "RUNNING"
        /\ tasks[last.id].status = "TIMEOUT"
        /\ tasks[last.id].submitted_at < wk[w].at - task_timeout

\* C6: a poll that is answered QUEUED or RUNNING calls update_task only when
\* the answer differs from the stored status; an answer equal to the stored
\* status makes no call and leaves the status as it is.
C6_NoRedundantWrite ==
    last.kind = "poll" /\ last.remote \in {"QUEUED", "RUNNING"} =>
        /\ last.writes = (IF last.remote = last.prev THEN 0 ELSE 1)
        /\ tasks[last.id].status = last.remote

\* A RUNNING task was polled, the provider answered RUNNING, nothing was
\* written.
C6_Witness ==
    /\ last.kind = "poll" /\ last.prev = "RUNNING" /\ last.remote = "RUNNING"
    /\ last.writes = 0
    /\ tasks[last.id].status = "RUNNING"

\* C7: a SUBMITTED task polled QUEUED becomes QUEUED, a QUEUED task polled
\* RUNNING becomes RUNNING, a RUNNING task polled SUCCESS whose output is
\* uploaded becomes SUCCESS, each with exactly one update_task call, and the
\* result_url stored is the URL the upload returned, not the provider's.
C7_ScenarioA ==
    last.kind = "poll" =>
        /\ last.prev = "SUBMITTED" /\ last.remote = "QUEUED" =>
              tasks[last.id].status = "QUEUED" /\ last.writes = 1
        /\ last.prev = "QUEUED" /\ last.remote = "RUNNING" =>
              tasks[last.id].status = "RUNNING" /\ last.writes = 1
        /\ last.prev = "RUNNING" /\ last.remote = "SUCCESS" /\ last.post = "ok" =>
              /\ tasks[last.id].status = "SUCCESS" /\ last.writes = 1
              /\ tasks[last.id].result_url = CdnUrl
              /\ tasks[last.id].result_url /= ProviderUrl
              /\ entity[last.id] = tasks[last.id].r2_key

\* The last poll of the scenario: a RUNNING task, first submitted and never
\* retried, is polled SUCCESS and its image is uploaded.
C7_Witness ==
    /\ last.kind = "poll" /\ last.prev = "RUNNING" /\ last.remote = "SUCCESS"
    /\ last.post = "ok" /\ last.writes = 1
    /\ tasks[last.id].status = "SUCCESS"
    /\ tasks[last.id].retry_count = 0
    /\ tasks[last.id].result_url = CdnUrl

C9_Original ==
    \A w \in Workers :
        AfterTimeoutSweep(w) =>
            \A i \in TaskIds :
                ~(/\ tasks[i].status \in ActiveStatuses
                  /\ tasks[i].submitted_at = wk[w].at - (task_timeout + 1))

C9_TimeoutState ==
    /\ \A w \in Workers :
          AfterTimeoutSweep(w) =>
              \A i \in TaskIds :
                  ~(/\ tasks[i].status \in ActiveStatuses
                    /\ tasks[i].submitted_at = wk[w].at - (task_timeout + 1)
                    /\ WithinMaxAge(tasks[i], wk[w].at))
    /\ \A w \in Workers : \A k \in 1..Len(wk[w].batch) :
          tasks[wk[w].batch[k].id].status /= "TIMEOUT"

C9_TimeoutStep ==
    \A i \in TaskIds : tasks[i].status = "TIMEOUT" => tasks'[i] = tasks[i]

\* C9, amended: the timeout sweep moves an active task submitted
\* task_timeout + 1 minutes before its query to TIMEOUT when the task was
\* created less than max_age_days before the query; a TIMEOUT task is in no
\* batch any pass fetches and no step changes its row, whatever its
\* retry_count.
C9_TimeoutIsFinal == []C9_TimeoutState /\ [][C9_TimeoutStep]_vars

\* A task submitted 31 minutes before the sweep is TIMEOUT with retries left,
\* and a retry sweep has passed it by.
C9_Witness ==
    \E i \in TaskIds, w \in Workers :
        /\ tasks[i].status = "TIMEOUT"
        /\ tasks[i].retry_count < tasks[i].max_retries
        /\ tasks[i].submitted_at = wk[w].at - (task_timeout + 1)
        /\ AfterRetrySweep(w) /\ last.kind = "fetch_retry"

\* The ids of the rows in the batch worker w is working on.
BatchIds(w) == {wk[w].batch[k].id : k \in 1..Len(wk[w].batch)}

\* C11: every task has retry_count <= max_retries, and the batch of the retry
\* sweep never holds a FAILED task whose retry_count is max_retries.
C11_RetryCountBounded ==
    /\ \A i \in TaskIds : tasks[i].retry_count <= tasks[i].max_retries
    /\ \A w \in Workers :
          wk[w].pc = "retry" =>
              \A i \in BatchIds(w) :
                  /\ tasks[i].status = "FAILED"
                  /\ tasks[i].retry_count < tasks[i].max_retries

\* The retry sweep has selected one task and passed by another that is FAILED
\* with its budget used up.
C11_Witness ==
    \E w \in Workers, i, j \in TaskIds :
        /\ wk[w].pc = "retry" /\ j \in BatchIds(w) /\ i \notin BatchIds(w)
        /\ tasks[i].status = "FAILED"
        /\ tasks[i].retry_count = tasks[i].max_retries

\* C12: a task in PENDING has no provider task id, also after the retry sweep
\* reset it, and a task in SUBMITTED, QUEUED, RUNNING or SUCCESS has one.
C12_ProviderIdIffSubmitted ==
    \A i \in TaskIds :
        /\ tasks[i].status = "PENDING" => tasks[i].task_id = NoHandle
        /\ tasks[i].status \in ActiveStatuses \cup {"SUCCESS"} =>
              tasks[i].task_id /= NoHandle

\* C13: the row a retry-sweep reset leaves is PENDING with no provider task
\* id and no error_message.
C13_ResetClearsFields ==
    last.kind = "retry" =>
        /\ tasks[last.id].status = "PENDING"
        /\ tasks[last.id].task_id = NoHandle
        /\ tasks[last.id].error_message = NULL

\* C20: every generate_image call that is in the admission-wait loop
\* eventually returns.
C20_EveryCallReturns ==
    \A t \in Threads : (th[t].pc = "wait") ~> (th[t].pc = "done")

(***************************************************************************)
(* Claims about run() and a store that can fail.                           *)
(***************************************************************************)
\* C14: after the provider reported SUCCESS for a task, the step leaves the
\* row SUCCESS with the entity's image written, or FAILED with the error
\* recorded; the entity's image is never written while the row stays
\* active with no failure recorded.
C14_PostProcessingAtomic ==
    (last.kind = "poll" /\ last.remote = "SUCCESS") =>
        \/ /\ tasks[last.id].status = "SUCCESS"
           /\ last.entity_written
        \/ /\ tasks[last.id].status = "FAILED"
           /\ tasks[last.id].error_message = "postprocess_failed"
           /\ ~last.entity_written \/ last.store = <<"unreachable", "ok">>

\* Something went wrong while the step worked on its row: the provider
\* refused or failed, a post-processing step failed, or the store did not
\* take a write.
Failure(l) ==
    \/ \E k \in 1..Len(l.store) : l.store[k] /= "ok"
    \/ l.kind = "submit" /\ ~submit_task(l.qf, l.then).accepted
    \/ l.kind = "poll" /\ l.remote \in {"raises", "FAIL", "CANCEL"}
    \/ l.kind = "poll" /\ l.post \notin {"ok", "none"}

\* The step on the first row of a longer batch leaves the rest of the batch
\* to the same pass.
Continues(w) ==
    /\ wk'[w].pc = wk[w].pc
    /\ wk'[w].batch = Tail(wk[w].batch)

\* The update_task call that no try block of the pass encloses got no
\* connection: the TIMEOUT update, the retry reset, or the FAILED update of
\* the submit pass's except branch.
UncaughtUnreachable(l) ==
    /\ l.kind \in {"submit", "timeout", "retry"}
    /\ l.store /= <<>>
    /\ l.store[Len(l.store)] = "unreachable"
    /\ l.kind = "submit" =>
          ~submit_task(l.qf, l.then).accepted \/ Len(l.store) = 2

\* C15 as stated: in each pass, a failure on one row never prevents the
\* remaining rows of the batch from being processed in the same pass.
C15_Original ==
    [][\A w \in Workers :
          (wk[w].pc \in Passes /\ Len(wk[w].batch) > 1 /\ Failure(last'))
              => Continues(w)]_vars

\* C15: in each pass, a failure on one row leaves the remaining rows of the
\* batch to the same pass, except exactly when an update_task call outside
\* every try block cannot reach the store: then the exception leaves the
\* pass.  The poll pass always goes on.
C15_FailureIsolation ==
    [][\A w \in Workers :
          (wk[w].pc \in Passes /\ Len(wk[w].batch) > 1 /\ Failure(last'))
              => /\ Continues(w) <=> ~UncaughtUnreachable(last')
                 /\ last'.escaped <=> UncaughtUnreachable(last')]_vars

\* A submit pass went on to its second row after the first row's submission
\* failed and was recorded.
C15_Witness ==
    /\ last.kind = "submit"
    /\ \A w \in Workers : wk[w].pc = "fetch_active"
    /\ tasks[last.id].status = "SUBMITTED"
    /\ \E i \in TaskIds : i /= last.id /\ tasks[i].status = "FAILED"

\* The positions of run() inside the try block, and those of its except
\* branch.
InPasses ==
    {"fetch_pending", "submit", "fetch_active", "poll", "fetch_timeout",
     "timeout", "fetch_retry", "retry", "passes_done"}
InExcept == {"backoff", "reinit", "reinit_wait"}

\* C16: when the store is unreachable during an iteration, the call that
\* meets it raises out of its pass: run() is in its except branch with the
\* error counted, and does not go on as if the pass had succeeded.
C16_OutageCountsAsFailure ==
    (\E k \in 1..Len(last.store) : last.store[k] = "unreachable") =>
        \A w \in Workers :
            /\ wk[w].pc \in InExcept
            /\ wk[w].consecutive_errors > 0

\* C17: after a failed iteration that leaves k consecutive errors, k below
\* max_consecutive_errors, the loop waits min(poll_interval * k, 30)
\* seconds, a wait that never decreases with k and never exceeds 30; every
\* iteration whose four passes all return resets the counter to 0.
C17_Backoff ==
    /\ \A w \in Workers :
          wk[w].pc = "backoff" =>
              LET k == wk[w].consecutive_errors
              IN /\ k \in 1..(max_consecutive_errors - 1)
                 /\ wk[w].wait <= 30
                 /\ wk[w].wait = IF poll_interval * k <= 30
                                 THEN poll_interval * k ELSE 30
    /\ \A j, k \in 1..MaxErrors : j <= k => wait_time(j) <= wait_time(k)
    /\ \A w \in Workers : wk[w].pc = "sleep" => wk[w].consecutive_errors = 0

\* The loop is in the longest wait below the ceiling, after nine failed
\* iterations in a row.
C17_Witness ==
    \E w \in Workers :
        /\ wk[w].pc = "backoff"
        /\ wk[w].consecutive_errors = max_consecutive_errors - 1
        /\ wk[w].wait = 30

\* C18 as stated: once consecutive_errors has reached
\* max_consecutive_errors, no pass runs before a reinitialization has
\* succeeded: a failed reinitialization is followed, after the wait, by
\* another reinitialization.
C18_Original ==
    \A w \in Workers :
        wk[w].consecutive_errors >= max_consecutive_errors =>
            wk[w].pc \notin InPasses

\* C18: a failed iteration that brings consecutive_errors to
\* max_consecutive_errors or beyond is followed by _initialize_connections
\* before any further pass; if that raises, the loop waits 60 seconds and
\* then starts its next iteration, whose failure is followed by the next
\* reinitialization; run() ends on no exception of a pass or of the
\* reinitialization.
C18_State ==
    \A w \in Workers :
        /\ wk[w].pc = "reinit" =>
              wk[w].consecutive_errors >= max_consecutive_errors
        /\ wk[w].pc = "reinit_wait" =>
              /\ wk[w].wait = 60
              /\ wk[w].consecutive_errors >= max_consecutive_errors
        /\ wk[w].pc = "returned" => ~wk[w].running
C18_Step ==
    \A w \in Workers :
        /\ (/\ wk'[w].consecutive_errors > wk[w].consecutive_errors
            /\ wk'[w].consecutive_errors >= max_consecutive_errors)
              => wk'[w].pc = "reinit"
        /\ (wk[w].pc = "reinit" /\ wk'[w].pc /= "reinit")
              => \/ wk'[w].pc = "reinit_wait" /\ last'.then = "raises"
                 \/ /\ wk'[w].pc = "loop" /\ last'.then = "ok"
                    /\ wk'[w].consecutive_errors = 0
        /\ (wk[w].pc = "reinit_wait" /\ wk'[w].pc /= "reinit_wait")
              => wk'[w].pc = "loop"
        /\ (wk[w].pc \in InPasses /\ last'.escaped)
              => wk'[w].pc \in InExcept
C18_Reinitialization == []C18_State /\ [][C18_Step]_vars

\* After a failed reinitialization and a further failed iteration, the loop
\* is about to reinitialize again.
C18_Witness ==
    \E w \in Workers :
        /\ wk[w].pc = "reinit"
        /\ wk[w].consecutive_errors = max_consecutive_errors + 1

\* C19: run() returns only after a shutdown signal; once _signal_handler has
\* set running to False, the iteration in progress runs to its end, no new
\* iteration is started, and run() eventually returns.
C19_State ==
    \A w \in Workers : wk[w].pc = "returned" => ~wk[w].running
C19_Step ==
    \A w \in Workers :
        /\ wk'[w].pc = "returned" => wk[w].pc \in {"loop", "returned"}
        /\ (~wk[w].running /\ wk[w].pc \in {"loop", "returned"})
              => wk'[w].pc \in {"loop", "returned"}
        /\ ~wk[w].running => ~wk'[w].running
C19_Shutdown ==
    /\ []C19_State
    /\ [][C19_Step]_vars
    /\ \A w \in Workers : (~wk[w].running) ~> (wk[w].pc = "returned")

\* run() has returned at the head of its loop after a signal, having marked
\* a task TIMEOUT in some iteration.
C19_Witness ==
    \E w \in Workers :
        /\ wk[w].pc = "returned"
        /\ last.kind = "loop"
        /\ \E i \in TaskIds : tasks[i].status = "TIMEOUT"

(***************************************************************************)
(* Claims about the writes to the task table.                              *)
(***************************************************************************)
\* A later step has overwritten a SUCCESS row with TIMEOUT.
C21_SuccessOverwritten ==
    \E i \in TaskIds :
        /\ last.kind = "timeout" /\ last.id = i
        /\ tasks[i].status = "TIMEOUT"
        /\ tasks[i].result_url /= NULL

\* C21: every update a step writes is conditional on the status the step
\* read for its row: when the row's status is no longer the fetched one, the
\* step leaves the row as it is, so a stale TIMEOUT or FAILED never
\* overwrites a SUCCESS written in between.
C21_StatusScopedUpdates ==
    /\ [][\A i \in TaskIds :
             (/\ last'.kind \in Passes
              /\ last'.id = i
              /\ last'.prev /= tasks[i].status)
                 => tasks'[i] = tasks[i]]_vars
    /\ []~C21_SuccessOverwritten

(***************************************************************************)
(* Claims about one call of a client's generate operation.                 *)
(***************************************************************************)
\* C22: a call of a generate operation never resubmits after a failure: it
\* makes at most one submission the provider accepts, and exactly one when
\* it returns after a poll timeout, a provider failure or a missing output.
C22_NoResubmission ==
    \A t \in Threads :
        /\ th[t].accepted <= 1
        /\ (/\ th[t].pc = "done"
            /\ th[t].exit \in {"poll_timeout", "provider_failure",
                               "output_missing"})
              => th[t].accepted = 1

\* C23: a queue-full answer to a submission is retried, so a call ends on
\* queue-full only when its attempts have reached the ceiling; the attempts
\* never exceed the ceiling; any other submission error ends the call after
\* that one attempt.
C23_QueueFullRetried ==
    \A t \in Threads :
        /\ th[t].requests <= max_submission_retries
        /\ (th[t].pc = "done" /\ th[t].exit = "queue_full")
              => th[t].requests = max_submission_retries
        /\ (th[t].pc = "done" /\ th[t].exit = "submission_failed")
              => th[t].requests = 1

\* C30: in generate_img2img with use_concurrency_control=True, task_finished
\* is called exactly once per acquired slot on every exit path, also when
\* _poll_task_status raises: a call never releases more than it acquired,
\* has released its slot when it returns, and the manager counts exactly
\* the slots still held.
C30_ReleasedExactlyOnce ==
    /\ \A t \in Threads :
          /\ th[t].rel <= th[t].acq
          /\ th[t].pc = "done" => th[t].rel = th[t].acq
    /\ mgr["flux"].submitted =
          Cardinality({t \in Threads : th[t].acq > th[t].rel})

(***************************************************************************)
(* Claims about the poll pass and the columns of a task.                   *)
(***************************************************************************)
\* The step was a poll whose status query returned nothing or raised.
PollFailed(l) ==
    l.kind = "poll" /\ l.requests = 1 /\ l.remote \in {"none", "raises"}

\* C24: when the status query of a poll fails (check_task_status returns
\* nothing or raises), the step changes no field of the task and nothing
\* else in the store; the task stays in its active status and is not moved
\* to FAILED.
C24_PollFailureChangesNothing ==
    [][(PollFailed(last') /\ last' /= last) =>
          /\ tasks' = tasks
          /\ entity' = entity
          /\ last'.writes = 0
          /\ tasks'[last'.id].status = last'.prev
          /\ tasks'[last'.id].status \in ActiveStatuses]_vars

\* A status query raised and the task is still RUNNING.
C24_Witness ==
    /\ PollFailed(last)
    /\ last.remote = "raises"
    /\ tasks[last.id].status = "RUNNING"

\* The rows a pass has still to process, those it has processed, and the
\* qualifying rows its query left out.
Waiting(w) == {wk[w].batch[k].id : k \in 1..Len(wk[w].batch)}
Submitted(w) == {i \in DOMAIN tasks : tasks[i].status \notin {"PENDING", "NONE"}}
LeftPending(w) ==
    {i \in DOMAIN tasks : tasks[i].status = "PENDING"} \ Waiting(w)
Polled(w) == {i \in DOMAIN tasks : tasks[i].task_id /= NoHandle} \ Waiting(w)

C26_ResultOnlyOnSuccess ==
    \A i \in DOMAIN tasks :
        /\ (tasks[i].result_url /= NULL \/ tasks[i].r2_key /= NULL)
              => tasks[i].status = "SUCCESS"
        /\ tasks[i].status = "SUCCESS"
              => /\ tasks[i].result_url \notin {NULL, None}
                 /\ tasks[i].r2_key \notin {NULL, None}

\* C27: a task has a non-null error_message only if its status is FAILED or
\* TIMEOUT, so a task the retry sweep has reset carries no error_message
\* while it is PENDING, active or SUCCESS.
C27_ErrorOnlyOnFailure ==
    \A i \in DOMAIN tasks :
        tasks[i].error_message /= NULL
            => tasks[i].status \in {"FAILED", "TIMEOUT"}

\* C28: over the whole life of a task, retries included, submitted_at is
\* assigned at most once: once the column has a value, no later step gives
\* it another.  (completed_at is set by the same statement of update_task,
\* on every write of a terminal status.)
C28_TimestampsAssignedOnce ==
    [][\A i \in DOMAIN tasks :
          tasks[i].submitted_at /= NoTime
              => tasks'[i].submitted_at = tasks[i].submitted_at]_vars

\* C29: every poll of an active task updates last_poll_at, also when the
\* provider reports the status the row already has: a poll step that got
\* QUEUED or RUNNING for an answer writes the row.
C29_EveryPollRecorded ==
    [][(/\ last' /= last
        /\ last'.kind = "poll"
        /\ last'.remote \in {"QUEUED", "RUNNING"})
           => last'.writes >= 1]_vars

(***************************************************************************)
(* Claims about the retry count and the submissions of a task.             *)
(***************************************************************************)
\* C31: retry_count is changed only by the retry sweep's reset, by exactly
\* one per reset that the store took; the submit pass (a failed submission
\* included), the poll pass and the timeout sweep leave it as it is.
C31_RetryCountOnlyByReset ==
    [][\A i \in DOMAIN tasks :
          /\ tasks'[i].retry_count /= tasks[i].retry_count
                => /\ last'.kind = "retry"
                   /\ last'.id = i
                   /\ tasks'[i].retry_count = tasks[i].retry_count + 1
          /\ (/\ last' /= last /\ last'.kind = "retry" /\ last'.id = i
              /\ tasks'[i].status /= tasks[i].status)
                => tasks'[i].retry_count = tasks[i].retry_count + 1]_vars

\* A submission failed without a change of retry_count, and the retry sweep
\* has then reset the task.
C31_Witness ==
    /\ last.kind = "retry"
    /\ tasks[last.id].status = "PENDING"
    /\ tasks[last.id].retry_count = 1
    /\ tasks[last.id].error_message = "submit_failed"

(***************************************************************************)
(* Claims about the manager's counters.                                    *)
(***************************************************************************)
\* C32: whatever the order of try_submit_task, task_finished and
\* task_failed_before_running, 0 <= running_tasks <= submitted_tasks, so
\* get_status reports queued = submitted - running >= 0.
C32_RunningWithinSubmitted ==
    \A c \in Clients :
        /\ 0 <= mgr[c].running
        /\ mgr[c].running <= mgr[c].submitted
        /\ get_status(mgr[c]).queued >= 0

(***************************************************************************)
(* Claims about the poll loop of a client.                                 *)
(***************************************************************************)
\* C33: in a client's poll loop, errors in a row (failed request, malformed
\* or error response) are retried at most max_poll_retries times, then the
\* call returns failure; fewer errors in a row do not end the loop.
C33_PollErrorsBounded ==
    \A t \in 1..NumPollers :
        /\ th[t].errors <= max_poll_retries
        /\ (th[t].pc = "poll" => th[t].errors < max_poll_retries)
        /\ (th[t].pc = "done" /\ th[t].exit = "poll_errors")
              => th[t].errors = max_poll_retries

\* The same for the calls of the qwen client alone.
C33_QwenPollErrorsBounded ==
    \A t \in 1..NumPollers :
        th[t].client = "qwen" =>
            /\ th[t].errors <= max_poll_retries
            /\ (th[t].pc = "poll" => th[t].errors < max_poll_retries)
            /\ (th[t].pc = "done" /\ th[t].exit = "poll_errors")
                  => th[t].errors = max_poll_retries

AcceptedAt(i, r) ==
    /\ last.kind = "submit"
    /\ last.id = i
    /\ submit_task(last.qf, last.then).accepted
    /\ tasks[i].retry_count = r

\* C35: the worker submits a task to the provider at most retry_count + 1
\* times: once the provider has accepted a task, the worker does not submit
\* it again while its retry_count is the same, also when the store write
\* that records SUBMITTED fails.
C35_SubmittedOncePerAttempt ==
    \A i \in TaskIds : \A r \in 0..default_max_retries :
        [](AcceptedAt(i, r) => [](~AcceptedAt(i, r) => []~AcceptedAt(i, r)))

(***************************************************************************)
(* Claims about the progress of a task.                                    *)
(***************************************************************************)
\* The task has reached SUCCESS, TIMEOUT, or FAILED with its retries used up.
Finished(i) ==
    \/ tasks[i].status \in {"SUCCESS", "TIMEOUT"}
    \/ tasks[i].status = "FAILED" /\ tasks[i].retry_count = tasks[i].max_retries

C37_SuccessAfterPostProcessing ==
    [][\A i \in DOMAIN tasks :
          /\ (tasks'[i].status = "SUCCESS" /\ tasks[i].status /= "SUCCESS")
                => /\ last'.kind = "poll" /\ last'.id = i
                   /\ last'.remote = "SUCCESS"
                   /\ last'.post = "ok"
                   /\ last'.entity_written
                   /\ entity'[i] = tasks'[i].r2_key
                   /\ tasks'[i].result_url = CdnUrl
          /\ (/\ last' /= last /\ last'.kind = "poll" /\ last'.id = i
              /\ last'.remote = "SUCCESS" /\ last'.post /= "ok")
                => /\ tasks'[i].status /= "SUCCESS"
                   /\ ~last'.entity_written]_vars

\* A poll has written SUCCESS after the upload and the entity's update, and
\* the store took the write.
C37_Witness ==
    /\ last.kind = "poll" /\ last.remote = "SUCCESS" /\ last.post = "ok"
    /\ last.entity_written
    /\ last.store = <<"ok">>
    /\ tasks[last.id].status = "SUCCESS"
    /\ entity[last.id] = tasks[last.id].r2_key

(***************************************************************************)
(* Claims about waiting for a slot.                                        *)
(***************************************************************************)
\* Every caller that holds a slot eventually gives it back with
\* task_finished: the premise of C38, which every fair behavior satisfies.
C38_EverySlotReturned ==
    \A u \in Threads : (th[u].slot /\ th[u].pc /= "done") ~> (th[u].pc = "done")

\* C38: with every caller that holds a slot eventually giving it back with
\* task_finished, every caller in the admission loop (try_submit_task,
\* sleep, repeat) eventually acquires a slot, whatever the number of callers
\* competing for the manager.
C38_EveryWaiterAdmitted ==
    \A t \in Threads : (th[t].pc = "wait") ~> th[t].slot

(***************************************************************************)
(* Claims about the entity a task renders for.                             *)
(***************************************************************************)
\* The storage key the worker computes equals AsyncImageService.get_r2_key
\* for the task's entity type, episode and name: the part of C39 about keys.
C39_SameKey ==
    \A t \in DOMAIN th :
        th[t].pc = "processed" =>
            th[t].r2_key = get_r2_key(th[t].entity_type, th[t].episode_number,
                                      th[t].entity_name)

\* C39: for every entity type, the table the worker updates on success is
\* the table the API service read the entity from when it created the task,
\* and the worker's storage key equals AsyncImageService.get_r2_key for the
\* same entity type, episode and name.
C39_SameTableAndKey ==
    \A t \in DOMAIN th :
        th[t].pc = "processed" =>
            /\ th[t].updated = th[t].looked_up
            /\ th[t].r2_key = get_r2_key(th[t].entity_type, th[t].episode_number,
                                         th[t].entity_name)

====
